---- MODULE Spec2Model ----
(***************************************************************************)
(* Model of the race-condition reproduction harness.                       *)
(*                                                                         *)
(* The workload driver (the shell script test-race-conditions.sh, kept in  *)
(* src/unnamed/part_000) is modelled statement by statement: argument      *)
(* parsing, recovery of the rebuild flag, the build-freshness check, the   *)
(* artifact check, and the 20-iteration loop with its generator.           *)
(*                                                                         *)
(* Shell words are sequences of one-character strings, so that pattern     *)
(* matching, prefix stripping and the string <-> number conversions of the *)
(* script are computed rather than assumed.  TLC integers are 32 bits      *)
(* wide, so the generator's arithmetic modulo 2^31 is carried out with     *)
(* operations that never leave 0 .. 2^31-1.                                *)
(***************************************************************************)
EXTENDS Integers, Sequences, FiniteSets, TLC

VARIABLES
    argv,         \* the command line the driver was started with
    args,         \* the positional parameters "$@" still to be parsed
    SEED,         \* shell variable SEED (a word)
    PARSED_ARGS,  \* shell array PARSED_ARGS
    pc,           \* position in the script
    i,            \* loop variable of the iteration loop
    SEED_STATE,   \* shell variable _SEED_STATE of the driver's own shell
    TEST_SEED,    \* exported environment variable TEST_SEED
    sleep_time,   \* shell variable sleep_time
    exitCode,     \* exit status of the driver, NoExit while it runs
    SRC_FILE,     \* functions/scripts/createDoc.ts on disk
    OUT_FILE,     \* functions/lib/scripts/createDoc.js on disk
    checked,      \* the files as the build-freshness check saw them, and its decision
    builds,       \* number of times "npm run build" was run
    buildStatus,  \* exit status of "npm run build", NoExit if it has not exited
    running,      \* external invocations (node processes) in progress
    log,          \* the externally visible steps of the loop, in order
    sleeps,       \* the durations handed to the pseudo-random sleep, in order
    completed,    \* the completion message was printed
    run,          \* how many times the driver has been started
    prevSleeps,   \* the durations of the previous completed run
    callerEnv,    \* the environment the driver was started in
    GOOGLE_CLOUD_PROJECT, \* environment variable of the driver's shell
    childEnv      \* the environment of the latest external invocation

\* the state of the driver
driverVars == <<argv, args, SEED, PARSED_ARGS, pc, i, SEED_STATE, TEST_SEED,
                sleep_time, exitCode, SRC_FILE, OUT_FILE, checked, builds,
                buildStatus, running, log, sleeps, completed, run, prevSleeps,
                callerEnv, GOOGLE_CLOUD_PROJECT, childEnv>>

VARIABLES
    promises,     \* createDoc.ts: where each of the three async callbacks is
    col,          \* createDoc.ts: the records added to the uploads collection
    docRef,       \* createDoc.ts: docRef of each callback (index into col)
    now,          \* createDoc.ts: the time since the script started, in ms
    issuedAt,     \* createDoc.ts: when each callback issued its update
    scriptExit    \* createDoc.ts: exit status of the script, NoExit while it runs

\* the state of the trigger script
createDocVars == <<promises, col, docRef, now, issuedAt, scriptExit>>

VARIABLES
    variant,        \* which source file's handlers are deployed
    uploadDoc,      \* the document uploads/{uploadId}
    writes,         \* number of writes made to the document
    clientWrites,   \* number of those made by a client (the trigger script)
    flips,          \* number of writes that took generate from not true to true
    updateEvents,   \* document-updated events not yet delivered
    handled,        \* the events onUploadUpdate has been called with, and how it ended
    fans,           \* the fan-outs started by onUploadUpdate, in order
    filesUploaded,  \* number of files the fan-outs have uploaded under uploads/
    finalizeEvents  \* number of object-finalized events not yet handled

\* the state of onUploadUpdate and its fan-out
fanoutVars == <<variant, uploadDoc, writes, clientWrites, flips, updateEvents,
                handled, fans, filesUploaded, finalizeEvents>>

VARIABLES
    ffmpegRan,       \* runFfmpegAndUpload: the local variable ffmpegRan
    timeout,         \* runFfmpegAndUpload: the 500 ms timer
    ffmpegProc,      \* runFfmpegAndUpload: the ffmpeg subprocess
    resolved,        \* runFfmpegAndUpload: number of calls of resolve()
    attempts,        \* the calls of finalizeUpload and of uploadFile, in order
    tokens,          \* the collection storageUploadTokens
    bucket,          \* the objects of the bucket, with their uploadToken metadata
    objectEvents,    \* object-finalized events not yet delivered
    duplicates,      \* number of events delivered a second time
    foreign,         \* number of objects written under uploads/ by someone else
    execs,           \* the executions of onUploadFileFinalize, by object and delivery
    verifiedUploads  \* the field verifiedUploads of uploads/{uploadId}

\* the state of the uploads and of onUploadFileFinalize
storageVars == <<ffmpegRan, timeout, ffmpegProc, resolved, attempts, tokens,
                 bucket, objectEvents, duplicates, foreign, execs,
                 verifiedUploads>>

VARIABLES
    uploadId,        \* the upload id a file is produced for
    objectName,      \* event.data.name of the finalized object
    producer,        \* the code that built the name
    hasToken,        \* whether the object's metadata holds an uploadToken
    finalizer,       \* the module whose onUploadFileFinalize handles the event
    hpc,             \* where that execution of onUploadFileFinalize is
    firestoreReads,  \* number of Firestore reads of the execution
    tokenUpdates,    \* number of token documents the execution has updated
    docsWritten      \* ids of the documents of uploads/ the execution has written

\* the state of one object name and of the handler called with it
namesVars == <<uploadId, objectName, producer, hasToken, finalizer, hpc,
               firestoreReads, tokenUpdates, docsWritten>>

VARIABLES
    via,             \* uploadFile called directly, or the route POST /upload-file
    request,         \* uploadId, fileIndex and baseContent of the call
    upc,             \* where the call is
    tempFile,        \* the temp file of the call
    response         \* what the caller gets: a result, an error, a status

\* the state of one call of uploadFile or of POST /upload-file
uploadVars == <<via, request, upc, tempFile, response>>

VARIABLES
    calls,           \* the calls of makeApiRequestWithFFmpeg of each clip, in order
    ops,             \* the executions of their target operations, in order
    objects,         \* the objects each clip has stored under uploads/
    failures         \* number of failures and timeouts so far

\* the state of the requests of one fan-out
requestVars == <<calls, ops, objects, failures>>

VARIABLES
    genState,        \* _SEED_STATE of a shell in which prng_next is called
    genProduct,      \* 1103515245 * state + 12345 of the last call, in two parts
    duration,        \* what prng_float printed last
    draws            \* number of calls of prng_next so far

\* the state of the generator taken alone
prngVars == <<genState, genProduct, duration, draws>>

\* the state of the TypeScript programs, and of the generator taken alone
tsVars == <<createDocVars, fanoutVars, storageVars,
    namesVars,
    uploadVars,
    requestVars,
    prngVars>>

\* what a step of one program leaves alone: the state of the others
notCreateDoc == <<driverVars, fanoutVars, storageVars,
    namesVars,
    uploadVars,
    requestVars,
    prngVars>>
notFanout == <<driverVars, createDocVars, storageVars,
    namesVars,
    uploadVars,
    requestVars,
    prngVars>>
notNames == <<driverVars, createDocVars, fanoutVars, storageVars,
    uploadVars,
    requestVars,
    prngVars>>
notUpload == <<driverVars, createDocVars, fanoutVars, namesVars,
    requestVars,
    prngVars>>
notRequest == <<driverVars, createDocVars, fanoutVars, storageVars, namesVars,
                uploadVars,
    prngVars>>
notPrng == <<driverVars, createDocVars, fanoutVars, storageVars, namesVars,
             uploadVars, requestVars>>
notStorage == <<driverVars, createDocVars, fanoutVars,
    namesVars,
    uploadVars,
    requestVars,
    prngVars>>

vars == <<driverVars, tsVars>>

----------------------------------------------------------------------------
(* Bounds of the model *)

MaxArgs == 3
MaxRuns == 2
MaxTicks == 5
MaxWrites == 1
MaxFiles == 2
MaxObjects == 2
MaxDuplicates == 1
MaxIdLen == 5
MaxFailures == 1
MaxDraws == 8
TickMs == 50

(* Program constants *)

NumIterations == 20
NumDocs == 3
DelayStepMs == 100
NumClips == 3
FfmpegTasks == 3
PreviewFiles == 2
LcgA == 1103515245
LcgC == 12345
\* The modulus of the generator is 2147483648 = LcgMask + 1.
LcgMask == 2147483647
SettleSeconds == 2

----------------------------------------------------------------------------
(* Words *)

W_seed    == <<"-", "-", "s", "e", "e", "d">>
W_seedEq  == <<"-", "-", "s", "e", "e", "d", "=">>
W_rebuild == <<"-", "-", "r", "e", "b", "u", "i", "l", "d">>
W_bogus   == <<"-", "-", "b", "o", "g", "u", "s">>
W_42      == <<"4", "2">>
W_12345   == <<"1", "2", "3", "4", "5">>
W_seedEq42 == W_seedEq \o <<"4", "2">>
W_seedEq7  == W_seedEq \o <<"7">>

Words == {W_seed, W_42, W_seedEq42, W_seedEq7, W_rebuild, W_bogus}

RECURSIVE SeqsUpTo(_, _)
SeqsUpTo(S, n) ==
    IF n = 0 THEN {<<>>}
    ELSE LET shorter == SeqsUpTo(S, n - 1)
         IN  shorter \cup {Append(s, w) : s \in {t \in shorter : Len(t) = n - 1}, w \in S}

ArgLists == SeqsUpTo(Words, MaxArgs)

Digits == <<"0", "1", "2", "3", "4", "5", "6", "7", "8", "9">>

DigitVal(c) == (CHOOSE d \in 1..10 : Digits[d] = c) - 1

IsDigit(c) == \E d \in 1..10 : Digits[d] = c

HasPrefix(w, p) ==
    /\ Len(w) >= Len(p)
    /\ SubSeq(w, 1, Len(p)) = p

Drop(s, n) == SubSeq(s, n + 1, Len(s))

\* StripThroughEq with the expansion forgotten: SEED="$1"
KeepWholeWord(w) == w

\* ${1#*=} : remove the shortest prefix that ends with "="
StripThroughEq(w) ==
    IF \E k \in 1..Len(w) : w[k] = "="
    THEN LET k == CHOOSE k \in 1..Len(w) :
                      /\ w[k] = "="
                      /\ \A j \in 1..(k - 1) : w[j] # "="
         IN  Drop(w, k)
    ELSE w

----------------------------------------------------------------------------
(* Shell arithmetic and awk formatting *)

RECURSIVE ParseBase(_, _)
\* value of a digit string in the given base, most significant digit first
ParseBase(w, base) ==
    IF w = <<>> THEN 0
    ELSE ParseBase(SubSeq(w, 1, Len(w) - 1), base) * base + DigitVal(w[Len(w)])

\* Can the shell evaluate the word as an arithmetic operand under "set -u"?
\* The empty word is 0, a digit string is a decimal constant, or an octal one
\* when it starts with 0.  Every other word of Words names an unset variable
\* (--bogus is "--" applied to the unset variable bogus), which is an error.
ArithOk(w) ==
    /\ \A k \in 1..Len(w) : IsDigit(w[k])
    /\ (Len(w) > 1 /\ w[1] = "0") => \A k \in 1..Len(w) : DigitVal(w[k]) < 8

ArithValue(w) ==
    IF Len(w) > 1 /\ w[1] = "0" THEN ParseBase(w, 8) ELSE ParseBase(w, 10)

RECURSIVE Itoa(_)
\* decimal expansion of a non-negative integer, as echo prints it
Itoa(n) ==
    IF n < 10 THEN <<Digits[n + 1]>>
    ELSE Append(Itoa(n \div 10), Digits[(n % 10) + 1])

\* (a + b) % 2147483648 for a, b in 0 .. 2147483647
AddMod(a, b) ==
    IF a > LcgMask - b THEN (a - (LcgMask - b)) - 1 ELSE a + b

\* Numbers up to 2^62 are kept as hi * 2147483648 + lo with both parts in
\* 0 .. 2147483647, and multiplied in digits of 15 bits, whose products stay
\* below 2^31.
LimbBase == (LcgMask \div 65536) + 1

Limbs(a) == <<a % LimbBase, (a \div LimbBase) % LimbBase, a \div (LimbBase * LimbBase)>>

\* w + a for a in 0 .. 2147483647
AddWide(w, a) ==
    [hi |-> w.hi + (IF w.lo > LcgMask - a THEN 1 ELSE 0), lo |-> AddMod(w.lo, a)]

\* a * b for a, b in 0 .. 2147483647
MulWide(a, b) ==
    LET x == Limbs(a)
        y == Limbs(b)
        c0 == x[1] * y[1]
        c1 == x[1] * y[2] + x[2] * y[1]
        c2 == x[1] * y[3] + x[2] * y[2] + x[3] * y[1]
        c3 == x[2] * y[3] + x[3] * y[2]
        c4 == x[3] * y[3]
        t1 == c1 + (c0 \div LimbBase)
        t2 == c2 + (t1 \div LimbBase)
        t3 == c3 + (t2 \div LimbBase)
        t4 == c4 + (t3 \div LimbBase)
        d2 == t2 % LimbBase
    IN  [hi |-> (d2 \div 2) + (t3 % LimbBase) * (LimbBase \div 2)
                + t4 * (LimbBase * (LimbBase \div 2)),
         lo |-> (c0 % LimbBase) + (t1 % LimbBase) * LimbBase
                + (d2 % 2) * (LimbBase * LimbBase)]

\* (a * b) % 2147483648 for a, b in 0 .. 2147483647
MulMod(a, b) == MulWide(a, b).lo

\* (1103515245 * s + 12345) % 2147483648.  For s in 0 .. 2147483647 the
\* product stays below 2^63, so the shell's 64-bit result is the exact one.
Lcg(s) == AddMod(MulMod(LcgA, s), LcgC)

\* What a shell function leaves behind: the variable _SEED_STATE of the shell
\* it ran in, and what it wrote to standard output.
\* prng_next: _SEED_STATE=$(( ... )); echo $_SEED_STATE
\* An arithmetic error ends the shell running the function with no output.
prng_next(st) ==
    IF ArithOk(st)
    THEN LET n == Lcg(ArithValue(st))
         IN  [state |-> Itoa(n), out |-> Itoa(n)]
    ELSE [state |-> st, out |-> <<>>]

\* $(command): the command runs in a subshell, a copy of the shell; the
\* result is its standard output and the subshell's variables are discarded.
CommandSubst(r) == r.out

\* awk's conversion of -v val="..." to a number: the leading digits, 0 if none
AwkNumber(w) ==
    LET n == IF \E k \in 1..Len(w) : ~IsDigit(w[k])
             THEN (CHOOSE k \in 1..Len(w) :
                      /\ ~IsDigit(w[k])
                      /\ \A j \in 1..(k - 1) : IsDigit(w[j])) - 1
             ELSE Len(w)
    IN  ParseBase(SubSeq(w, 1, n), 10)

Two29 == (LcgMask \div 4) + 1
Two28 == (LcgMask \div 8) + 1
Two24 == (LcgMask \div 128) + 1

\* val / 2147483648 rounded to hundredths as printf "%.2f" rounds: to the
\* nearest, and an exact tie to the even neighbour.  The quotient is exact in
\* double precision.  val * 100 / 2^31 = val * 25 / 2^29, evaluated in pieces
\* that stay below 2^31.
Hundredths(val) ==
    LET a  == val \div Two29
        b  == val % Two29
        c  == b \div Two24
        d  == b % Two24
        q1 == (25 * c) \div 32
        r1 == (25 * c) % 32
        F  == r1 * Two24 + 25 * d
        whole == 25 * a + q1 + (F \div Two29)
        rem   == F % Two29
    IN  IF rem > Two28 THEN whole + 1
        ELSE IF rem < Two28 THEN whole
        ELSE IF whole % 2 = 0 THEN whole ELSE whole + 1

\* printf "%.2f" of h hundredths
Format2(h) ==
    Itoa(h \div 100) \o <<".">> \o <<Digits[((h % 100) \div 10) + 1], Digits[(h % 10) + 1]>>

\* AwkFormat with val divided by 1073741824, half the modulus.
AwkFormatHalfModulus(v) == Format2(2 * Hundredths(AwkNumber(v)))

\* awk -v val="$v" 'BEGIN { printf "%.2f", (val/2147483648) }'
AwkFormat(v) == Format2(Hundredths(AwkNumber(v)))

\* prng_float: local v=$(prng_next); awk ...
\* "local" hides the status of the substitution, so a failed prng_next leaves
\* v empty and the function goes on.
prng_float(st) ==
    LET v == CommandSubst(prng_next(st))
    IN  [state |-> st, out |-> AwkFormat(v)]

----------------------------------------------------------------------------
(* Files and external commands *)

Times == {1, 2}

\* the time at which a build writes its output: later than every file on disk
Now == Cardinality(Times) + 1

Missing == [exists |-> FALSE, mtime |-> 0]

Present == {[exists |-> TRUE, mtime |-> t] : t \in Times}

\* the source is part of the checkout; the artifact may not have been built yet
SourceFiles == Present

ArtifactFiles == {Missing} \cup Present

\* [[ f1 -nt f2 ]]: f1 exists and is newer than f2, or f1 exists and f2 does not
NewerThan(f1, f2) ==
    /\ f1.exists
    /\ (~f2.exists \/ f1.mtime > f2.mtime)

\* exit statuses of "node functions/lib/scripts/createDoc.js"
NodeStatuses == {0, 1, 3}

\* exit statuses of "npm run build"
BuildStatuses == {0, 2}

NoExit == 0 - 1

NotChecked == [done |-> FALSE, forced |-> FALSE, src |-> Missing,
               out |-> Missing, build |-> FALSE]

\* does the line contain the pattern (grep without anchors)
Contains(line, pat) ==
    \E k \in 0..(Len(line) - Len(pat)) : SubSeq(line, k + 1, k + Len(pat)) = pat

\* the async callbacks of the trigger script: Array.from({length: 3}), i = 0, 1, 2
Callbacks == 0..(NumDocs - 1)
NoTime == 0 - 1

\* the values of the field generate of an upload document as a handler reads
\* it: undefined (the field is absent), a boolean, or something else
GenUndefined == [t |-> "undefined"]
GenBool(b) == [t |-> "boolean", v |-> b]
GenString(w) == [t |-> "string", v |-> w]
GenerateValues == {GenUndefined, GenBool(FALSE), GenBool(TRUE), GenString("true")}

----------------------------------------------------------------------------
(* The environment *)

\* an environment variable: unset, or set to a value (possibly empty)
Unset == [set |-> FALSE, val |-> ""]
SetTo(v) == [set |-> TRUE, val |-> v]

DefaultProject == "firebase-cli-emulator-race-condition-repro"
DefaultFirestoreHost == "127.0.0.1:8080"
DefaultStorageHost == "127.0.0.1:9199"

\* the values a caller gives to a variable in the model
CallerProject == "my-project"
CallerHost == "10.0.0.5:7000"

\* ${VAR:+...} test of the shell: the variable is set and not empty
NonEmpty(v) == v.set /\ v.val # ""

\* ${VAR:-default} with the default ignored whenever the variable is set,
\* even to the empty string (that is ${VAR-default}).
ParamDefaultIfUnset(v, default) == IF v.set THEN v.val ELSE default

\* ${VAR:-default} : the value of VAR if it is set and not empty, else default
ParamDefault(v, default) == IF NonEmpty(v) THEN v.val ELSE default

EnvValues(callerValue) == {Unset, SetTo(""), SetTo(callerValue)}

CallerEnvs ==
    [GOOGLE_CLOUD_PROJECT : EnvValues(CallerProject),
     FIRESTORE_EMULATOR_HOST : EnvValues(CallerHost),
     FIREBASE_STORAGE_EMULATOR_HOST : EnvValues(CallerHost),
     STORAGE_EMULATOR_HOST : EnvValues(CallerHost)]

NoCallerEnv ==
    [GOOGLE_CLOUD_PROJECT |-> Unset,
     FIRESTORE_EMULATOR_HOST |-> Unset,
     FIREBASE_STORAGE_EMULATOR_HOST |-> Unset,
     STORAGE_EMULATOR_HOST |-> Unset]

\* no external invocation has been started yet
NoChildEnv == [started |-> FALSE]

\* the environment of "VAR=... ITERATION=$i node ..." : the exported
\* variables of the shell and the assignments in front of the command
InvocationEnv ==
    [started |-> TRUE,
     ITERATION |-> SetTo(Itoa(i)),
     TEST_SEED |-> SetTo(TEST_SEED),
     GOOGLE_CLOUD_PROJECT |-> GOOGLE_CLOUD_PROJECT,
     FIRESTORE_EMULATOR_HOST |->
         SetTo(ParamDefault(callerEnv.FIRESTORE_EMULATOR_HOST, DefaultFirestoreHost)),
     FIREBASE_STORAGE_EMULATOR_HOST |->
         SetTo(ParamDefault(callerEnv.FIREBASE_STORAGE_EMULATOR_HOST, DefaultStorageHost)),
     STORAGE_EMULATOR_HOST |->
         SetTo(ParamDefault(callerEnv.STORAGE_EMULATOR_HOST, DefaultStorageHost))]

----------------------------------------------------------------------------
(* The driver *)

\* The driver is started with one of the given command lines, in one of the
\* given environments.
DriverInit(argLists, envs) ==
    /\ argv \in argLists
    /\ args = argv
    /\ SEED = W_12345
    /\ PARSED_ARGS = <<>>
    /\ pc = "parse"
    /\ i = 0
    /\ SEED_STATE = <<>>
    /\ TEST_SEED = <<>>
    /\ sleep_time = <<>>
    /\ exitCode = NoExit
    /\ SRC_FILE \in SourceFiles
    /\ OUT_FILE \in ArtifactFiles
    /\ checked = NotChecked
    /\ builds = 0
    /\ buildStatus = NoExit
    /\ running = 0
    /\ log = <<>>
    /\ sleeps = <<>>
    /\ completed = FALSE
    /\ run = 1
    /\ prevSleeps = <<>>
    /\ callerEnv \in envs
    /\ GOOGLE_CLOUD_PROJECT = callerEnv.GOOGLE_CLOUD_PROJECT
    /\ childEnv = NoChildEnv

\* the trigger script is not running
CreateDocIdle ==
    /\ promises = [t \in Callbacks |-> "off"]
    /\ col = <<>>
    /\ docRef = [t \in Callbacks |-> 0]
    /\ now = 0
    /\ issuedAt = [t \in Callbacks |-> NoTime]
    /\ scriptExit = NoExit

\* the driver while another program is looked at: started without
\* arguments, the artifact not built yet, and it makes no step
DriverIdle ==
    /\ DriverInit({<<>>}, {NoCallerEnv})
    /\ \A f \in SourceFiles : SRC_FILE.mtime <= f.mtime
    /\ OUT_FILE = Missing

\* no document, no event and no fan-out
FanoutIdle ==
    /\ variant = "firestore-triggers"
    /\ uploadDoc = [generate |-> GenUndefined, verified |-> 0]
    /\ writes = 0
    /\ clientWrites = 0
    /\ flips = 0
    /\ updateEvents = {}
    /\ handled = {}
    /\ fans = <<>>
    /\ filesUploaded = 0
    /\ finalizeEvents = 0

\* no call of runFfmpegAndUpload
FfmpegIdle ==
    /\ ffmpegRan = FALSE
    /\ timeout = "none"
    /\ ffmpegProc = "none"
    /\ resolved = 0

\* nothing uploaded, nothing finalized
StorageIdle ==
    /\ attempts = <<>>
    /\ tokens = <<>>
    /\ bucket = {}
    /\ objectEvents = {}
    /\ duplicates = 0
    /\ foreign = 0
    /\ execs = <<>>
    /\ verifiedUploads = {}

\* no object name built, no handler called for one
NamesIdle ==
    /\ uploadId = <<>>
    /\ objectName = <<>>
    /\ producer = "none"
    /\ hasToken = FALSE
    /\ finalizer = "none"
    /\ hpc = "idle"
    /\ firestoreReads = 0
    /\ tokenUpdates = 0
    /\ docsWritten = {}

\* no call of uploadFile or of POST /upload-file
UploadIdle ==
    /\ via = "none"
    /\ request = [uploadId |-> GenUndefined, fileIndex |-> GenUndefined,
                  baseContent |-> GenUndefined]
    /\ upc = "none"
    /\ tempFile = "none"
    /\ response = "none"

\* no fan-out has made a request
RequestIdle ==
    /\ calls = <<>>
    /\ ops = <<>>
    /\ objects = <<>>
    /\ failures = 0

\* the TypeScript programs are not running
PrngIdle ==
    /\ genState = <<>>
    /\ genProduct = [hi |-> 0, lo |-> 0]
    /\ duration = <<>>
    /\ draws = 0

TsIdle == CreateDocIdle /\ FanoutIdle /\ FfmpegIdle /\ StorageIdle /\ NamesIdle /\ UploadIdle /\ RequestIdle /\ PrngIdle

Init == DriverInit(ArgLists, {NoCallerEnv}) /\ TsIdle

\* the shell exits with the given status ("exit n", or errexit / nounset)
Exit(status) ==
    /\ pc' = "done"
    /\ exitCode' = status

\* ParseArg with a lenient default branch: an unknown word is skipped.
ParseArgLenient ==
    /\ pc = "parse"
    /\ Len(args) > 0
    /\ LET w == args[1] IN
       IF w = W_seed
       THEN IF Len(args) >= 2
            THEN /\ SEED' = args[2]
                 /\ args' = Drop(args, 2)
                 /\ UNCHANGED <<PARSED_ARGS, pc, exitCode>>
            ELSE /\ Exit(1)
                 /\ UNCHANGED <<SEED, args, PARSED_ARGS>>
       ELSE IF HasPrefix(w, W_seedEq)
       THEN /\ SEED' = StripThroughEq(w)
            /\ args' = Drop(args, 1)
            /\ UNCHANGED <<PARSED_ARGS, pc, exitCode>>
       ELSE IF w = W_rebuild
       THEN /\ PARSED_ARGS' = Append(PARSED_ARGS, W_rebuild)
            /\ args' = Drop(args, 1)
            /\ UNCHANGED <<SEED, pc, exitCode>>
       ELSE /\ args' = Drop(args, 1)
            /\ UNCHANGED <<SEED, PARSED_ARGS, pc, exitCode>>
    /\ UNCHANGED <<tsVars, callerEnv, GOOGLE_CLOUD_PROJECT, childEnv, argv, i,
                   SEED_STATE, TEST_SEED, sleep_time, SRC_FILE, OUT_FILE,
                   checked, builds, buildStatus, running, log, sleeps,
                   completed, run, prevSleeps>>

\* One pass of the "while [[ $# -gt 0 ]]; do case "$1" in ..." loop.
ParseArg ==
    /\ pc = "parse"
    /\ Len(args) > 0
    /\ LET w == args[1] IN
       IF w = W_seed
       THEN IF Len(args) >= 2
            THEN /\ SEED' = args[2]
                 /\ args' = Drop(args, 2)
                 /\ UNCHANGED <<PARSED_ARGS, pc, exitCode>>
            ELSE \* "$2" is unset: set -u ends the shell with status 1
                 /\ Exit(1)
                 /\ UNCHANGED <<SEED, args, PARSED_ARGS>>
       ELSE IF HasPrefix(w, W_seedEq)
       THEN /\ SEED' = StripThroughEq(w)
            /\ args' = Drop(args, 1)
            /\ UNCHANGED <<PARSED_ARGS, pc, exitCode>>
       ELSE IF w = W_rebuild
       THEN /\ PARSED_ARGS' = Append(PARSED_ARGS, W_rebuild)
            /\ args' = Drop(args, 1)
            /\ UNCHANGED <<SEED, pc, exitCode>>
       ELSE \* echo "Unknown arg: $1" >&2; exit 1
            /\ Exit(1)
            /\ UNCHANGED <<SEED, args, PARSED_ARGS>>
    /\ UNCHANGED <<tsVars, callerEnv, GOOGLE_CLOUD_PROJECT, childEnv, argv, i,
                   SEED_STATE, TEST_SEED, sleep_time, SRC_FILE, OUT_FILE,
                   checked, builds, buildStatus, running, log, sleeps,
                   completed, run, prevSleeps>>

\* RecoverRebuild with the flag lost: "set --" in both branches.
RecoverRebuildLost ==
    /\ pc = "parse"
    /\ Len(args) = 0
    /\ args' = <<>>
    /\ pc' = "check"
    /\ UNCHANGED <<tsVars, callerEnv, GOOGLE_CLOUD_PROJECT, childEnv, argv,
                   SEED, PARSED_ARGS, i, SEED_STATE, TEST_SEED, sleep_time,
                   exitCode, SRC_FILE, OUT_FILE, checked, builds, buildStatus,
                   running, log, sleeps, completed, run, prevSleeps>>

\* if printf '%s\n' "${PARSED_ARGS[@]:-}" | grep -q -- '--rebuild'; then
\*     set -- --rebuild; else set --; fi
RecoverRebuild ==
    /\ pc = "parse"
    /\ Len(args) = 0
    /\ args' = IF \E k \in 1..Len(PARSED_ARGS) : Contains(PARSED_ARGS[k], W_rebuild)
               THEN <<W_rebuild>>
               ELSE <<>>
    /\ pc' = "check"
    /\ UNCHANGED <<tsVars, callerEnv, GOOGLE_CLOUD_PROJECT, childEnv, argv,
                   SEED, PARSED_ARGS, i, SEED_STATE, TEST_SEED, sleep_time,
                   exitCode, SRC_FILE, OUT_FILE, checked, builds, buildStatus,
                   running, log, sleeps, completed, run, prevSleeps>>

\* the if / elif / elif / else that decides whether to run the build
BuildCheck ==
    /\ pc = "check"
    /\ LET first  == IF Len(args) >= 1 THEN args[1] ELSE <<>>
           forced == first = W_rebuild
           build  == \/ forced
                     \/ ~OUT_FILE.exists
                     \/ NewerThan(SRC_FILE, OUT_FILE)
       IN  /\ checked' = [done |-> TRUE, forced |-> forced, src |-> SRC_FILE,
                          out |-> OUT_FILE, build |-> build]
           /\ pc' = IF build THEN "build" ELSE "verify"
    /\ UNCHANGED <<tsVars, callerEnv, GOOGLE_CLOUD_PROJECT, childEnv, argv,
                   args, SEED, PARSED_ARGS, i, SEED_STATE, TEST_SEED,
                   sleep_time, exitCode, SRC_FILE, OUT_FILE, builds,
                   buildStatus, running, log, sleeps, completed, run,
                   prevSleeps>>

\* npm run build >/dev/null : an external command.  It exits with some status
\* and has or has not written the artifact; under errexit a non-zero status
\* ends the driver with that status.
Build ==
    /\ pc = "build"
    /\ builds' = builds + 1
    /\ \E status \in BuildStatuses, wrote \in BOOLEAN :
          /\ buildStatus' = status
          /\ OUT_FILE' = IF wrote THEN [exists |-> TRUE, mtime |-> Now] ELSE OUT_FILE
          /\ IF status = 0
             THEN pc' = "verify" /\ UNCHANGED exitCode
             ELSE Exit(status)
    /\ UNCHANGED <<tsVars, callerEnv, GOOGLE_CLOUD_PROJECT, childEnv, argv,
                   args, SEED, PARSED_ARGS, i, SEED_STATE, TEST_SEED,
                   sleep_time, SRC_FILE, checked, running, log, sleeps,
                   completed, run, prevSleeps>>

\* if [[ ! -f "$OUT_FILE" ]]; then echo "Build failed ..." >&2; exit 1; fi
VerifyArtifact ==
    /\ pc = "verify"
    /\ IF ~OUT_FILE.exists
       THEN Exit(1)
       ELSE pc' = "start" /\ UNCHANGED exitCode
    /\ UNCHANGED <<tsVars, callerEnv, GOOGLE_CLOUD_PROJECT, childEnv, argv,
                   args, SEED, PARSED_ARGS, i, SEED_STATE, TEST_SEED,
                   sleep_time, SRC_FILE, OUT_FILE, checked, builds,
                   buildStatus, running, log, sleeps, completed, run,
                   prevSleeps>>

\* export GOOGLE_CLOUD_PROJECT=${GOOGLE_CLOUD_PROJECT:-...};
\* export TEST_SEED="$SEED"; _SEED_STATE=$SEED; for i in {1..20}
StartIterations ==
    /\ pc = "start"
    /\ GOOGLE_CLOUD_PROJECT' = SetTo(ParamDefault(GOOGLE_CLOUD_PROJECT, DefaultProject))
    /\ TEST_SEED' = SEED
    /\ SEED_STATE' = SEED
    /\ i' = 1
    /\ pc' = "invoke"
    /\ UNCHANGED <<tsVars, callerEnv, childEnv, argv, args, SEED, PARSED_ARGS,
                   sleep_time, exitCode, SRC_FILE, OUT_FILE, checked, builds,
                   buildStatus, running, log, sleeps, completed, run,
                   prevSleeps>>

\* a step of the loop as seen from outside: what ran, in which iteration,
\* and its argument (for "exit": the status the invocation exited with)
Entry(op, arg) == [op |-> op, it |-> i, arg |-> arg]

\* InvokeStart with the invocation put in the background ("node ... &"): the
\* shell goes on without waiting for it.
InvokeStartBackground ==
    /\ pc = "invoke"
    /\ running' = running + 1
    /\ log' = Append(log, Entry("invoke", Itoa(i)))
    /\ pc' = "settle"
    /\ childEnv' = InvocationEnv
    /\ UNCHANGED <<tsVars, callerEnv, GOOGLE_CLOUD_PROJECT, argv, args, SEED,
                   PARSED_ARGS, i, SEED_STATE, TEST_SEED, sleep_time,
                   exitCode, SRC_FILE, OUT_FILE, checked, builds, buildStatus,
                   sleeps, completed, run, prevSleeps>>

\* ITERATION=$i node "$OUT_FILE" : the process is started ...
InvokeStart ==
    /\ pc = "invoke"
    /\ running' = running + 1
    /\ log' = Append(log, Entry("invoke", Itoa(i)))
    /\ pc' = "node"
    /\ childEnv' = InvocationEnv
    /\ UNCHANGED <<tsVars, callerEnv, GOOGLE_CLOUD_PROJECT, argv, args, SEED,
                   PARSED_ARGS, i, SEED_STATE, TEST_SEED, sleep_time,
                   exitCode, SRC_FILE, OUT_FILE, checked, builds, buildStatus,
                   sleeps, completed, run, prevSleeps>>

\* InvokeExit when the invocation never exits: the shell waits.
InvokeNeverExits ==
    /\ pc = "node"
    /\ UNCHANGED vars

\* InvokeExit with every failure turned into status 1
\* (as after "node ... || exit 1").
InvokeExitStatusOne ==
    /\ pc = "node"
    /\ running' = running - 1
    /\ \E status \in NodeStatuses :
          /\ log' = Append(log, Entry("exit", Itoa(status)))
          /\ IF status = 0
             THEN pc' = "settle" /\ UNCHANGED exitCode
             ELSE Exit(1)
    /\ UNCHANGED <<tsVars, callerEnv, GOOGLE_CLOUD_PROJECT, childEnv, argv,
                   args, SEED, PARSED_ARGS, i, SEED_STATE, TEST_SEED,
                   sleep_time, SRC_FILE, OUT_FILE, checked, builds,
                   buildStatus, sleeps, completed, run, prevSleeps>>

\* InvokeExit without errexit (as after "node ... || true"): a failed
\* invocation is ignored.
InvokeExitIgnoreStatus ==
    /\ pc = "node"
    /\ running' = running - 1
    /\ \E status \in NodeStatuses :
          /\ log' = Append(log, Entry("exit", Itoa(status)))
          /\ pc' = "settle"
          /\ UNCHANGED exitCode
    /\ UNCHANGED <<tsVars, callerEnv, GOOGLE_CLOUD_PROJECT, childEnv, argv,
                   args, SEED, PARSED_ARGS, i, SEED_STATE, TEST_SEED,
                   sleep_time, SRC_FILE, OUT_FILE, checked, builds,
                   buildStatus, sleeps, completed, run, prevSleeps>>

\* ... and the shell waits for it to exit; errexit ends the driver with the
\* status of a failed invocation.
InvokeExit ==
    /\ pc = "node"
    /\ running' = running - 1
    /\ \E status \in NodeStatuses :
          /\ log' = Append(log, Entry("exit", Itoa(status)))
          /\ IF status = 0
             THEN pc' = "settle" /\ UNCHANGED exitCode
             ELSE Exit(status)
    /\ UNCHANGED <<tsVars, callerEnv, GOOGLE_CLOUD_PROJECT, childEnv, argv,
                   args, SEED, PARSED_ARGS, i, SEED_STATE, TEST_SEED,
                   sleep_time, SRC_FILE, OUT_FILE, checked, builds,
                   buildStatus, sleeps, completed, run, prevSleeps>>

\* sleep 2
Settle ==
    /\ pc = "settle"
    /\ log' = Append(log, Entry("settle", Itoa(SettleSeconds)))
    /\ pc' = "prng"
    /\ UNCHANGED <<tsVars, callerEnv, GOOGLE_CLOUD_PROJECT, childEnv, argv,
                   args, SEED, PARSED_ARGS, i, SEED_STATE, TEST_SEED,
                   sleep_time, exitCode, SRC_FILE, OUT_FILE, checked, builds,
                   buildStatus, running, sleeps, completed, run, prevSleeps>>

\* Prng with the generator seeded from the clock instead of the seed; the
\* number of the run stands for the time at which it was started.
PrngTimeSeeded ==
    /\ pc = "prng"
    /\ sleep_time' = CommandSubst(prng_float(Itoa(run)))
    /\ pc' = "sleep"
    /\ UNCHANGED <<tsVars, callerEnv, GOOGLE_CLOUD_PROJECT, childEnv, argv,
                   args, SEED, PARSED_ARGS, i, SEED_STATE, TEST_SEED,
                   exitCode, SRC_FILE, OUT_FILE, checked, builds, buildStatus,
                   running, log, sleeps, completed, run, prevSleeps>>

\* sleep_time=$(prng_float) : prng_float runs in a subshell, so the driver's
\* own _SEED_STATE keeps its value.
Prng ==
    /\ pc = "prng"
    /\ sleep_time' = CommandSubst(prng_float(SEED_STATE))
    /\ pc' = "sleep"
    /\ UNCHANGED <<tsVars, callerEnv, GOOGLE_CLOUD_PROJECT, childEnv, argv,
                   args, SEED, PARSED_ARGS, i, SEED_STATE, TEST_SEED,
                   exitCode, SRC_FILE, OUT_FILE, checked, builds, buildStatus,
                   running, log, sleeps, completed, run, prevSleeps>>

\* Sleep with the loop bound off by one: a 21st iteration is started.
SleepOffByOne ==
    /\ pc = "sleep"
    /\ log' = Append(log, Entry("sleep", sleep_time))
    /\ sleeps' = Append(sleeps, sleep_time)
    /\ IF i <= NumIterations
       THEN i' = i + 1 /\ pc' = "invoke"
       ELSE i' = i /\ pc' = "complete"
    /\ UNCHANGED <<tsVars, callerEnv, GOOGLE_CLOUD_PROJECT, childEnv, argv,
                   args, SEED, PARSED_ARGS, SEED_STATE, TEST_SEED, sleep_time,
                   exitCode, SRC_FILE, OUT_FILE, checked, builds, buildStatus,
                   running, completed, run, prevSleeps>>

\* sleep "$sleep_time"; done
Sleep ==
    /\ pc = "sleep"
    /\ log' = Append(log, Entry("sleep", sleep_time))
    /\ sleeps' = Append(sleeps, sleep_time)
    /\ IF i < NumIterations
       THEN i' = i + 1 /\ pc' = "invoke"
       ELSE i' = i /\ pc' = "complete"
    /\ UNCHANGED <<tsVars, callerEnv, GOOGLE_CLOUD_PROJECT, childEnv, argv,
                   args, SEED, PARSED_ARGS, SEED_STATE, TEST_SEED, sleep_time,
                   exitCode, SRC_FILE, OUT_FILE, checked, builds, buildStatus,
                   running, completed, run, prevSleeps>>

\* echo "Completed 20 iterations" ...; the script ends, status 0
Complete ==
    /\ pc = "complete"
    /\ completed' = TRUE
    /\ Exit(0)
    /\ UNCHANGED <<tsVars, callerEnv, GOOGLE_CLOUD_PROJECT, childEnv, argv,
                   args, SEED, PARSED_ARGS, i, SEED_STATE, TEST_SEED,
                   sleep_time, SRC_FILE, OUT_FILE, checked, builds,
                   buildStatus, running, log, sleeps, run, prevSleeps>>

\* The same command line is run again after a completed run, with whatever
\* files are then on disk.
Rerun ==
    /\ pc = "done"
    /\ exitCode = 0
    /\ run < MaxRuns
    /\ run' = run + 1
    /\ prevSleeps' = sleeps
    /\ args' = argv
    /\ SEED' = W_12345
    /\ PARSED_ARGS' = <<>>
    /\ pc' = "parse"
    /\ i' = 0
    /\ SEED_STATE' = <<>>
    /\ TEST_SEED' = <<>>
    /\ sleep_time' = <<>>
    /\ exitCode' = NoExit
    /\ SRC_FILE' \in SourceFiles
    /\ OUT_FILE' \in ArtifactFiles
    /\ checked' = NotChecked
    /\ builds' = 0
    /\ buildStatus' = NoExit
    /\ running' = 0
    /\ log' = <<>>
    /\ sleeps' = <<>>
    /\ completed' = FALSE
    /\ GOOGLE_CLOUD_PROJECT' = callerEnv.GOOGLE_CLOUD_PROJECT
    /\ childEnv' = NoChildEnv
    /\ UNCHANGED <<tsVars, callerEnv, argv>>

Next ==
    \/ ParseArg
    \/ RecoverRebuild
    \/ BuildCheck
    \/ Build
    \/ VerifyArtifact
    \/ StartIterations
    \/ InvokeStart
    \/ InvokeExit
    \/ Settle
    \/ Prng
    \/ Sleep
    \/ Complete

Spec == Init /\ [][Next]_vars

NextRepeat == Next \/ Rerun

SpecRepeat == Init /\ [][NextRepeat]_vars

\* the command lines of the driver when the environment is varied
EnvArgLists == {<<>>, <<W_seedEq42>>}

\* The driver started in every environment of the model.
InitEnv == DriverInit(EnvArgLists, CallerEnvs) /\ TsIdle

SpecEnv == InitEnv /\ [][Next]_vars

\* the command lines of the driver when its termination is looked at
FairArgLists == {<<>>, <<W_rebuild>>, <<W_seedEq42>>, <<W_bogus>>}

InitFair == DriverInit(FairArgLists, {NoCallerEnv}) /\ TsIdle

\* the steps of the driver other than the command substitution $(prng_float)
NextButPrng ==
    \/ ParseArg
    \/ RecoverRebuild
    \/ BuildCheck
    \/ Build
    \/ VerifyArtifact
    \/ StartIterations
    \/ InvokeStart
    \/ InvokeExit
    \/ Settle
    \/ Sleep
    \/ Complete

\* The shell goes on to its next statement, and every command it waits for
\* (the build, the invocation, the sleeps) exits in the end.  Prng is enabled
\* exactly when pc = "prng", so its weak fairness is written as the driver
\* leaving that position.
SpecFair ==
    InitFair /\ [][Next]_vars /\ WF_vars(NextButPrng) /\ []<>(pc # "prng")

----------------------------------------------------------------------------
(* The trigger script createDoc.ts *)

\* !process.env.X : the variable is undefined or the empty string
Falsy(v) == ~NonEmpty(v)

\* The defaults the script gives to its own environment e before it connects;
\* gcloud is the variable GCLOUD_PROJECT of that environment.
ScriptEnv(e, gcloud) ==
    LET e1 == IF Falsy(e.GOOGLE_CLOUD_PROJECT) /\ Falsy(gcloud)
              THEN [e EXCEPT !.GOOGLE_CLOUD_PROJECT = SetTo(DefaultProject)]
              ELSE e
        e2 == IF Falsy(e1.FIRESTORE_EMULATOR_HOST)
              THEN [e1 EXCEPT !.FIRESTORE_EMULATOR_HOST = SetTo(DefaultFirestoreHost)]
              ELSE e1
    IN  IF Falsy(e2.FIREBASE_STORAGE_EMULATOR_HOST) /\ Falsy(e2.STORAGE_EMULATOR_HOST)
        THEN [e2 EXCEPT !.FIREBASE_STORAGE_EMULATOR_HOST = SetTo(DefaultStorageHost),
                        !.STORAGE_EMULATOR_HOST = SetTo(DefaultStorageHost)]
        ELSE e2

\* main() has called the three async callbacks: each has issued its add.
CreateDocInit ==
    /\ promises = [t \in Callbacks |-> "add"]
    /\ col = <<>>
    /\ docRef = [t \in Callbacks |-> 0]
    /\ now = 0
    /\ issuedAt = [t \in Callbacks |-> NoTime]
    /\ scriptExit = NoExit

\* main().catch(e => { console.error(e); process.exit(1) }) : the first
\* rejected callback rejects Promise.all and main, and the process exits.
Rejected(t) ==
    /\ promises' = [promises EXCEPT ![t] = "rejected"]
    /\ scriptExit' = 1

\* await col.add({..., generate: false, testRun: i}) resolves, and
\* setTimeout(resolve, i * 100) is called
AddResolves(t) ==
    /\ scriptExit = NoExit
    /\ promises[t] = "add"
    /\ col' = Append(col, [testRun |-> t, generate |-> FALSE,
                            created |-> [generate |-> FALSE, at |-> now]])
    /\ docRef' = [docRef EXCEPT ![t] = Len(col) + 1]
    /\ promises' = [promises EXCEPT ![t] = "delay"]
    /\ UNCHANGED <<notCreateDoc, now, issuedAt, scriptExit>>

\* await col.add(...) rejects
AddRejects(t) ==
    /\ scriptExit = NoExit
    /\ promises[t] = "add"
    /\ Rejected(t)
    /\ UNCHANGED <<notCreateDoc, col, docRef, now, issuedAt>>

\* TimerFires without the delay: the update is issued as soon as the record
\* has been created.
TimerFiresAtOnce(t) ==
    /\ scriptExit = NoExit
    /\ promises[t] = "delay"
    /\ issuedAt' = [issuedAt EXCEPT ![t] = now]
    /\ promises' = [promises EXCEPT ![t] = "update"]
    /\ UNCHANGED <<notCreateDoc, col, docRef, now, scriptExit>>

\* the timer of callback i fires, i * 100 ms or more after it was set, and
\* docRef.update({generate: true}) is issued
TimerFires(t) ==
    /\ scriptExit = NoExit
    /\ promises[t] = "delay"
    /\ now >= col[docRef[t]].created.at + t * DelayStepMs
    /\ issuedAt' = [issuedAt EXCEPT ![t] = now]
    /\ promises' = [promises EXCEPT ![t] = "update"]
    /\ UNCHANGED <<notCreateDoc, col, docRef, now, scriptExit>>

\* await docRef.update({generate: true}) resolves; when it was the last
\* callback, Promise.all and main resolve and the process ends with status 0
UpdateResolves(t) ==
    /\ scriptExit = NoExit
    /\ promises[t] = "update"
    /\ col' = [col EXCEPT ![docRef[t]].generate = TRUE]
    /\ promises' = [promises EXCEPT ![t] = "fulfilled"]
    /\ scriptExit' = IF \A u \in Callbacks : promises'[u] = "fulfilled"
                     THEN 0 ELSE NoExit
    /\ UNCHANGED <<notCreateDoc, docRef, now, issuedAt>>

\* await docRef.update(...) rejects
UpdateRejects(t) ==
    /\ scriptExit = NoExit
    /\ promises[t] = "update"
    /\ Rejected(t)
    /\ UNCHANGED <<notCreateDoc, col, docRef, now, issuedAt>>

\* time passes
Tick ==
    /\ scriptExit = NoExit
    /\ now < MaxTicks * TickMs
    /\ now' = now + TickMs
    /\ UNCHANGED <<notCreateDoc, promises, col, docRef, issuedAt, scriptExit>>

CreateDocNext ==
    \/ \E t \in Callbacks : AddResolves(t)
    \/ \E t \in Callbacks : AddRejects(t)
    \/ \E t \in Callbacks : TimerFires(t)
    \/ \E t \in Callbacks : UpdateResolves(t)
    \/ \E t \in Callbacks : UpdateRejects(t)
    \/ Tick

\* One run of the trigger script; the driver does not move.
InitCreateDoc ==
    DriverIdle /\ CreateDocInit /\ FanoutIdle /\ FfmpegIdle /\ StorageIdle
    /\ NamesIdle
    /\ UploadIdle
    /\ RequestIdle
    /\ PrngIdle

SpecCreateDoc == InitCreateDoc /\ [][CreateDocNext]_vars

----------------------------------------------------------------------------
(* onUploadUpdate and its fan-out *)

Variants == {"firestore-triggers", "repro"}

\* the clips of one fan-out: clipIndex 0, 1, 2
Clips == 0..(NumClips - 1)

\* x === true
StrictTrue(x) == x.t = "boolean" /\ x.v = TRUE

\* x == true with JavaScript's loose comparison replaced by truthiness
Truthy(x) == (x.t = "boolean" /\ x.v = TRUE) \/ x.t = "string"

\* the promise of one clip: where it is, whether its work failed, and how
\* many log lines were written about its failures
NewClip(v) ==
    [state |-> IF v = "repro" THEN "process" ELSE "request",
     failed |-> FALSE, logs |-> 0]

Pending(c) == c.state \in {"request", "fallback", "process"}

\* a fan-out: the event that started it, its clip promises, the log lines of
\* Promise.all(...).catch, and the clips that were pending when the first
\* clip was rejected
NewFan(v, id) ==
    [event |-> id, clips |-> [b \in Clips |-> NewClip(v)], errorLogs |-> 0,
     pendingAtFailure |-> {}]

FanoutInit ==
    /\ variant \in Variants
    /\ uploadDoc \in [generate : GenerateValues, verified : {0}]
    /\ writes = 0
    /\ clientWrites = 0
    /\ flips = 0
    /\ updateEvents = {}
    /\ handled = {}
    /\ fans = <<>>
    /\ filesUploaded = 0
    /\ finalizeEvents = 0

\* A write to the existing document fires a document-updated event with the
\* snapshots before and after it.
Written(before, after, cause) ==
    /\ writes' = writes + 1
    /\ updateEvents' = updateEvents \cup
           {[id |-> writes + 1, before |-> before.generate,
             after |-> after.generate, cause |-> cause]}
    /\ uploadDoc' = after

\* a client (createDoc.ts: docRef.update({generate: true})) writes the field
ClientWrite(g) ==
    /\ clientWrites < MaxWrites
    /\ clientWrites' = clientWrites + 1
    /\ flips' = IF ~StrictTrue(uploadDoc.generate) /\ StrictTrue(g)
                THEN flips + 1 ELSE flips
    /\ Written(uploadDoc, [uploadDoc EXCEPT !.generate = g], "client")
    /\ UNCHANGED <<notFanout, variant, handled, fans, filesUploaded, finalizeEvents>>

\* Skips with generate compared loosely: any truthy value counts as true.
SkipsLoosely(v, before, after) ==
    IF v = "repro"
    THEN Truthy(before) \/ ~Truthy(after)
    ELSE ~Truthy(after) \/ Truthy(before)

\* firestore-triggers.ts: if (!generateAfter || generateBefore) return;
\* repro.ts: if (before.generate === true || after.generate !== true) return;
Skips(v, before, after) ==
    IF v = "repro"
    THEN StrictTrue(before) \/ ~StrictTrue(after)
    ELSE ~StrictTrue(after) \/ StrictTrue(before)

\* OnUploadUpdate that starts the fan-out on every update of the document.
OnUploadUpdateAlways(e) ==
    /\ e \in updateEvents
    /\ updateEvents' = updateEvents \ {e}
    /\ handled' = handled \cup {e @@ [started |-> TRUE, result |-> "returned"]}
    /\ fans' = Append(fans, NewFan(variant, e.id))
    /\ UNCHANGED <<notFanout, variant, uploadDoc, writes, clientWrites, flips,
                   filesUploaded, finalizeEvents>>

\* onUploadUpdate is called with an event: it returns at once, after having
\* called makeApiRequestWithFFmpeg (processClip in repro.ts) for every clip
\* when generate went from not true to true
OnUploadUpdate(e) ==
    /\ e \in updateEvents
    /\ updateEvents' = updateEvents \ {e}
    /\ LET start == ~Skips(variant, e.before, e.after)
       IN  /\ handled' = handled \cup
                  {e @@ [started |-> start, result |-> "returned"]}
           /\ fans' = IF start THEN Append(fans, NewFan(variant, e.id)) ELSE fans
    /\ UNCHANGED <<notFanout, variant, uploadDoc, writes, clientWrites, flips,
                   filesUploaded, finalizeEvents>>

\* the clip b of fan-out f becomes c
SetClip(f, b, c) ==
    fans' = [fans EXCEPT ![f].clips[b] = c]

\* makeApiRequestWithFFmpeg: the request through the in-memory app succeeds
RequestSucceeds(f, b) ==
    /\ fans[f].clips[b].state = "request"
    /\ SetClip(f, b, [fans[f].clips[b] EXCEPT !.state = "fulfilled"])
    /\ UNCHANGED <<notFanout, variant, uploadDoc, writes, clientWrites, flips,
                   updateEvents, handled, filesUploaded, finalizeEvents>>

\* makeApiRequestWithFFmpeg: the request throws; the catch block logs
\* 'Axiosist failed, using fallback' and calls the operation directly
RequestFails(f, b) ==
    /\ fans[f].clips[b].state = "request"
    /\ SetClip(f, b, [fans[f].clips[b] EXCEPT !.state = "fallback", !.logs = @ + 1])
    /\ UNCHANGED <<notFanout, variant, uploadDoc, writes, clientWrites, flips,
                   updateEvents, handled, filesUploaded, finalizeEvents>>

\* makeApiRequestWithFFmpeg: the direct call returns
FallbackSucceeds(f, b) ==
    /\ fans[f].clips[b].state = "fallback"
    /\ SetClip(f, b, [fans[f].clips[b] EXCEPT !.state = "fulfilled"])
    /\ UNCHANGED <<notFanout, variant, uploadDoc, writes, clientWrites, flips,
                   updateEvents, handled, filesUploaded, finalizeEvents>>

\* FallbackFails when a rejected clip ended the other clips of its fan-out.
FallbackFailsCancelling(f, b) ==
    /\ fans[f].clips[b].state = "fallback"
    /\ fans' = [fans EXCEPT ![f] =
           [@ EXCEPT !.clips = [c \in Clips |->
                         IF c = b \/ Pending(fans[f].clips[c])
                         THEN [fans[f].clips[c] EXCEPT !.state = "rejected",
                                                       !.failed = (c = b)]
                         ELSE fans[f].clips[c]],
                     !.errorLogs = 1]]
    /\ UNCHANGED <<notFanout, variant, uploadDoc, writes, clientWrites, flips,
                   updateEvents, handled, filesUploaded, finalizeEvents>>

\* makeApiRequestWithFFmpeg: the direct call throws and the clip's promise is
\* rejected; the first rejection of a fan-out rejects Promise.all(clipPromises),
\* whose catch logs "Clip preview promises failed"
FallbackFails(f, b) ==
    /\ fans[f].clips[b].state = "fallback"
    /\ LET first == \A c \in Clips : fans[f].clips[c].state # "rejected"
       IN  fans' = [fans EXCEPT
               ![f].clips[b] = [@ EXCEPT !.state = "rejected", !.failed = TRUE],
               ![f].errorLogs = IF first THEN @ + 1 ELSE @,
               ![f].pendingAtFailure =
                   IF first THEN {c \in Clips \ {b} : Pending(fans[f].clips[c])}
                   ELSE @]
    /\ UNCHANGED <<notFanout, variant, uploadDoc, writes, clientWrites, flips,
                   updateEvents, handled, filesUploaded, finalizeEvents>>

\* repro.ts: processClip(...) returns
ProcessClipSucceeds(f, b) ==
    /\ fans[f].clips[b].state = "process"
    /\ SetClip(f, b, [fans[f].clips[b] EXCEPT !.state = "fulfilled"])
    /\ UNCHANGED <<notFanout, variant, uploadDoc, writes, clientWrites, flips,
                   updateEvents, handled, filesUploaded, finalizeEvents>>

\* repro.ts: processClip(...) throws; its own .catch logs "process-clip failed"
\* and the promise given to Promise.all is fulfilled
ProcessClipFails(f, b) ==
    /\ fans[f].clips[b].state = "process"
    /\ fans' = [fans EXCEPT
           ![f].clips[b] = [@ EXCEPT !.state = "fulfilled", !.failed = TRUE,
                                     !.logs = @ + 1],
           ![f].pendingAtFailure =
               IF \A c \in Clips : ~fans[f].clips[c].failed
               THEN {c \in Clips \ {b} : Pending(fans[f].clips[c])}
               ELSE @]
    /\ UNCHANGED <<notFanout, variant, uploadDoc, writes, clientWrites, flips,
                   updateEvents, handled, filesUploaded, finalizeEvents>>

\* a clip whose work is going on uploads a file under uploads/, and the
\* bucket fires an object-finalized event for it
ClipUploads(f, b) ==
    /\ Pending(fans[f].clips[b])
    /\ filesUploaded < MaxFiles
    /\ filesUploaded' = filesUploaded + 1
    /\ finalizeEvents' = finalizeEvents + 1
    /\ UNCHANGED <<notFanout, variant, uploadDoc, writes, clientWrites, flips,
                   updateEvents, handled, fans>>

\* onUploadFileFinalize handles an event up to its last statement: it merges
\* lastFileFinalizedAt and verifiedUploads into the document, and nothing else
FinalizeWrites ==
    /\ finalizeEvents > 0
    /\ finalizeEvents' = finalizeEvents - 1
    /\ Written(uploadDoc, [uploadDoc EXCEPT !.verified = @ + 1], "finalize")
    /\ UNCHANGED <<notFanout, variant, clientWrites, flips, handled, fans,
                   filesUploaded>>

\* onUploadFileFinalize handles an event and returns at one of its token
\* checks, before writing
FinalizeReturnsEarly ==
    /\ finalizeEvents > 0
    /\ variant # "repro"
    /\ finalizeEvents' = finalizeEvents - 1
    /\ UNCHANGED <<notFanout, variant, uploadDoc, writes, clientWrites, flips,
                   updateEvents, handled, fans, filesUploaded>>

FanoutNext ==
    \/ \E g \in GenerateValues : ClientWrite(g)
    \/ \E e \in updateEvents : OnUploadUpdate(e)
    \/ \E f \in 1..Len(fans), b \in Clips : RequestSucceeds(f, b)
    \/ \E f \in 1..Len(fans), b \in Clips : RequestFails(f, b)
    \/ \E f \in 1..Len(fans), b \in Clips : FallbackSucceeds(f, b)
    \/ \E f \in 1..Len(fans), b \in Clips : FallbackFails(f, b)
    \/ \E f \in 1..Len(fans), b \in Clips : ProcessClipSucceeds(f, b)
    \/ \E f \in 1..Len(fans), b \in Clips : ProcessClipFails(f, b)
    \/ \E f \in 1..Len(fans), b \in Clips : ClipUploads(f, b)
    \/ FinalizeWrites
    \/ FinalizeReturnsEarly

InitFanout ==
    DriverIdle /\ CreateDocIdle /\ FanoutInit /\ FfmpegIdle /\ StorageIdle
    /\ NamesIdle
    /\ UploadIdle
    /\ RequestIdle
    /\ PrngIdle

\* One upload document, the events of its updates, and the fan-outs.
SpecFanout == InitFanout /\ [][FanoutNext]_vars

\* the steps of the functions: everything but the writes of clients
FunctionsNext ==
    \/ \E e \in updateEvents : OnUploadUpdate(e)
    \/ \E f \in 1..Len(fans), b \in Clips : RequestSucceeds(f, b)
    \/ \E f \in 1..Len(fans), b \in Clips : RequestFails(f, b)
    \/ \E f \in 1..Len(fans), b \in Clips : FallbackSucceeds(f, b)
    \/ \E f \in 1..Len(fans), b \in Clips : FallbackFails(f, b)
    \/ \E f \in 1..Len(fans), b \in Clips : ProcessClipSucceeds(f, b)
    \/ \E f \in 1..Len(fans), b \in Clips : ProcessClipFails(f, b)
    \/ FinalizeWrites
    \/ FinalizeReturnsEarly

\* the document as createDoc.ts creates it
InitFanoutFair == InitFanout /\ uploadDoc.generate = GenBool(FALSE)

\* Events are delivered, handlers run to their end, and every request and
\* every direct call of a clip returns or throws in the end.
SpecFanoutFair ==
    InitFanoutFair /\ [][FanoutNext]_vars /\ WF_vars(FunctionsNext)

----------------------------------------------------------------------------
(* Uploads, upload tokens and onUploadFileFinalize *)

\* metadata without uploadToken, and a token id no document exists for
NoToken == 0 - 1
UnknownToken == 0

\* tokenDoc.data() of a token id: undefined when there is no document
NoTokenData == [exists |-> FALSE]
TokenData(t) == IF t \in DOMAIN tokens THEN tokens[t] ELSE NoTokenData

\* finalizeUpload(ffmpegOk, exitCode): tokenRef.set(...) is called and not
\* awaited, and bucket.file(filePath).save(...) is called right after it
finalizeUpload(ffmpegOk, code) ==
    attempts' = Append(attempts,
        [kind |-> "finalizeUpload", ffmpegOk |-> ffmpegOk, exitCode |-> code,
         tokenSet |-> "pending", file |-> "pending"])

\* uploadFile with the write of the token document not awaited.
uploadFileUnawaited ==
    attempts' = Append(attempts,
        [kind |-> "uploadFile", ffmpegOk |-> TRUE, exitCode |-> 0,
         tokenSet |-> "pending", file |-> "pending"])

\* uploadFile(...): await tokenRef.set(...) is called; bucket.upload waits
\* for it
uploadFile ==
    attempts' = Append(attempts,
        [kind |-> "uploadFile", ffmpegOk |-> TRUE, exitCode |-> 0,
         tokenSet |-> "pending", file |-> "waiting"])

\* the 500 ms timer of runFfmpegAndUpload fires: the subprocess is sent
\* SIGTERM and finalizeUpload(false, -1) is called; ffmpegRan keeps its value
TimeoutFires ==
    /\ timeout = "armed"
    /\ timeout' = "fired"
    /\ IF ~ffmpegRan
       THEN /\ ffmpegProc' = IF ffmpegProc = "running" THEN "killed" ELSE ffmpegProc
            /\ finalizeUpload(FALSE, 0 - 1)
       ELSE UNCHANGED <<ffmpegProc, attempts>>
    /\ UNCHANGED <<notStorage, ffmpegRan, resolved, tokens, bucket, objectEvents,
                   duplicates, foreign, execs, verifiedUploads>>

\* ffmpegProc.on("exit"): the subprocess has ended, by itself or killed
ProcExits ==
    /\ ffmpegProc \in {"running", "killed", "errored"}
    /\ ffmpegProc' = "exited"
    /\ IF ~ffmpegRan
       THEN /\ ffmpegRan' = TRUE
            /\ timeout' = IF timeout = "armed" THEN "cleared" ELSE timeout
            /\ \E code \in {0 - 1, 0, 1} : finalizeUpload(TRUE, code)
       ELSE UNCHANGED <<ffmpegRan, timeout, attempts>>
    /\ UNCHANGED <<notStorage, resolved, tokens, bucket, objectEvents,
                   duplicates, foreign, execs, verifiedUploads>>

\* ffmpegProc.on("error"): the subprocess could not be spawned or killed;
\* an exit event may or may not follow
ProcErrors ==
    /\ ffmpegProc \in {"running", "killed"}
    /\ ffmpegProc' \in {"errored", "failed"}
    /\ IF ~ffmpegRan
       THEN /\ ffmpegRan' = TRUE
            /\ timeout' = IF timeout = "armed" THEN "cleared" ELSE timeout
            /\ finalizeUpload(FALSE, 0 - 2)
       ELSE UNCHANGED <<ffmpegRan, timeout, attempts>>
    /\ UNCHANGED <<notStorage, resolved, tokens, bucket, objectEvents,
                   duplicates, foreign, execs, verifiedUploads>>

\* the write of the token document of attempt k reaches Firestore; uploadFile,
\* which awaited it, goes on to bucket.upload
TokenSetLands(k) ==
    /\ attempts[k].tokenSet = "pending"
    /\ attempts' = [attempts EXCEPT
           ![k].tokenSet = "written",
           ![k].file = IF @ = "waiting" THEN "pending" ELSE @]
    /\ tokens' = tokens @@ (k :> [exists |-> TRUE, isConsumed |-> FALSE,
                                  fileStoragePath |-> k, updates |-> 0])
    /\ UNCHANGED <<notStorage, ffmpegRan, timeout, ffmpegProc, resolved, bucket,
                   objectEvents, duplicates, foreign, execs, verifiedUploads>>

\* the write of the token document fails: finalizeUpload logs it, uploadFile
\* throws and uploads nothing
TokenSetFails(k) ==
    /\ attempts[k].tokenSet = "pending"
    /\ attempts' = [attempts EXCEPT
           ![k].tokenSet = "failed",
           ![k].file = IF @ = "waiting" THEN "failed" ELSE @]
    /\ UNCHANGED <<notStorage, ffmpegRan, timeout, ffmpegProc, resolved, tokens,
                   bucket, objectEvents, duplicates, foreign, execs,
                   verifiedUploads>>

\* resolve() of runFfmpegAndUpload, called by finalizeUpload when its save
\* has ended either way
Resolve(k) ==
    resolved' = IF attempts[k].kind = "finalizeUpload" THEN resolved + 1 ELSE resolved

\* the file of attempt k is stored, with its uploadToken in the metadata,
\* and the bucket fires an object-finalized event
SaveCompletes(k) ==
    /\ attempts[k].file = "pending"
    /\ attempts' = [attempts EXCEPT ![k].file = "stored"]
    /\ bucket' = bucket \cup {[name |-> k, uploadToken |-> k]}
    /\ objectEvents' = objectEvents \cup {[name |-> k, uploadToken |-> k]}
    /\ Resolve(k)
    /\ UNCHANGED <<notStorage, ffmpegRan, timeout, ffmpegProc, tokens,
                   duplicates, foreign, execs, verifiedUploads>>

\* the upload of the file of attempt k fails
SaveFails(k) ==
    /\ attempts[k].file = "pending"
    /\ attempts' = [attempts EXCEPT ![k].file = "failed"]
    /\ Resolve(k)
    /\ UNCHANGED <<notStorage, ffmpegRan, timeout, ffmpegProc, tokens, bucket,
                   objectEvents, duplicates, foreign, execs, verifiedUploads>>

\* a handler of runFfmpegAndUpload calls finalizeUpload
CallFinalizeUpload ==
    /\ Len(attempts) + foreign < MaxObjects
    /\ finalizeUpload(TRUE, 0)
    /\ UNCHANGED <<notStorage, ffmpegRan, timeout, ffmpegProc, resolved, tokens,
                   bucket, objectEvents, duplicates, foreign, execs,
                   verifiedUploads>>

\* triggerGenerateClipPreview (or an HTTP endpoint) calls uploadFile
CallUploadFile ==
    /\ Len(attempts) + foreign < MaxObjects
    /\ uploadFile
    /\ UNCHANGED <<notStorage, ffmpegRan, timeout, ffmpegProc, resolved, tokens,
                   bucket, objectEvents, duplicates, foreign, execs,
                   verifiedUploads>>

\* someone else writes an object under uploads/: without uploadToken, with
\* a token id that has no document, or with the token id of another file
ForeignUpload(t) ==
    /\ Len(attempts) + foreign < MaxObjects
    /\ foreign' = foreign + 1
    /\ bucket' = bucket \cup {[name |-> 0 - foreign, uploadToken |-> t]}
    /\ objectEvents' = objectEvents \cup {[name |-> 0 - foreign, uploadToken |-> t]}
    /\ UNCHANGED <<notStorage, ffmpegRan, timeout, ffmpegProc, resolved, attempts,
                   tokens, duplicates, execs, verifiedUploads>>

\* the handler has not read a token: the file has none
NotRead == [read |-> FALSE]

\* ChecksPass without the comparison of fileStoragePath with the name.
ChecksPassAnyPath(name, data) ==
    /\ data.exists
    /\ ~data.isConsumed

\* the three checks of the handler on the token data it has read
ChecksPass(name, data) ==
    /\ data.exists
    /\ ~data.isConsumed
    /\ data.fileStoragePath = name

\* onUploadFileFinalize is called with the event of an object under uploads/
\* and runs up to its first write. Without uploadToken that is the write of
\* the document. With one, "await tokenRef.get()" returns and the handler
\* checks what it has read: it returns when a check fails and else calls
\* tokenRef.update
Started(o) ==
    IF o.uploadToken = NoToken
    THEN [name |-> o.name, uploadToken |-> o.uploadToken, pc |-> "set",
          tokenData |-> NotRead, updatedToken |-> FALSE, wroteDoc |-> FALSE]
    ELSE LET data == TokenData(o.uploadToken) @@ [read |-> TRUE]
         IN  [name |-> o.name, uploadToken |-> o.uploadToken,
              pc |-> IF ChecksPass(o.name, data) THEN "update" ELSE "returned",
              tokenData |-> data, updatedToken |-> FALSE, wroteDoc |-> FALSE]

\* the executions of the handler for the object of a name
Copies(name) == {x \in DOMAIN execs : x[1] = name}

\* the event of an object is delivered
Deliver(o) ==
    /\ o \in objectEvents
    /\ objectEvents' = objectEvents \ {o}
    /\ execs' = execs @@ (<<o.name, 0>> :> Started(o))
    /\ UNCHANGED <<notStorage, ffmpegRan, timeout, ffmpegProc, resolved, attempts,
                   tokens, bucket, duplicates, foreign, verifiedUploads>>

\* the event of an object is delivered once more (delivery is at least once)
Redeliver(o) ==
    /\ o \in bucket \ objectEvents
    /\ duplicates < MaxDuplicates
    /\ duplicates' = duplicates + 1
    /\ execs' = execs @@ (<<o.name, Cardinality(Copies(o.name))>> :> Started(o))
    /\ UNCHANGED <<notStorage, ffmpegRan, timeout, ffmpegProc, resolved, attempts,
                   tokens, bucket, objectEvents, foreign, verifiedUploads>>

\* await tokenRef.update({dateConsumed, isConsumed: true}) returns
UpdateToken(x) ==
    /\ execs[x].pc = "update"
    /\ tokens' = [tokens EXCEPT ![execs[x].uploadToken] =
                     [@ EXCEPT !.isConsumed = TRUE, !.updates = @ + 1]]
    /\ execs' = [execs EXCEPT ![x].pc = "set", ![x].updatedToken = TRUE]
    /\ UNCHANGED <<notStorage, ffmpegRan, timeout, ffmpegProc, resolved, attempts,
                   bucket, objectEvents, duplicates, foreign, verifiedUploads>>

\* await ref.set({..., verifiedUploads: arrayUnion(name)}, {merge: true})
\* returns, and the handler ends
SetUploadDoc(x) ==
    /\ execs[x].pc = "set"
    /\ verifiedUploads' = verifiedUploads \cup {execs[x].name}
    /\ execs' = [execs EXCEPT ![x].pc = "done", ![x].wroteDoc = TRUE]
    /\ UNCHANGED <<notStorage, ffmpegRan, timeout, ffmpegProc, resolved, attempts,
                   tokens, bucket, objectEvents, duplicates, foreign>>

\* the steps of an upload that has been called
UploadNext ==
    \/ \E k \in 1..Len(attempts) : TokenSetLands(k)
    \/ \E k \in 1..Len(attempts) : TokenSetFails(k)
    \/ \E k \in 1..Len(attempts) : SaveCompletes(k)
    \/ \E k \in 1..Len(attempts) : SaveFails(k)

FfmpegNext ==
    \/ TimeoutFires
    \/ ProcExits
    \/ ProcErrors
    \/ UploadNext

\* runFfmpegAndUpload has been called: ffmpeg is spawned and the timer set
FfmpegInit ==
    /\ ffmpegRan = FALSE
    /\ timeout = "armed"
    /\ ffmpegProc = "running"
    /\ resolved = 0

InitFfmpeg ==
    DriverIdle /\ CreateDocIdle /\ FanoutIdle /\ FfmpegInit /\ StorageIdle
    /\ NamesIdle
    /\ UploadIdle
    /\ RequestIdle
    /\ PrngIdle

\* One call of runFfmpegAndUpload.
SpecFfmpeg == InitFfmpeg /\ [][FfmpegNext]_vars

StorageNext ==
    \/ CallFinalizeUpload
    \/ CallUploadFile
    \/ UploadNext
    \/ \E t \in {NoToken, UnknownToken} \cup (1..Len(attempts)) : ForeignUpload(t)
    \/ \E o \in objectEvents : Deliver(o)
    \/ \E o \in bucket : Redeliver(o)
    \/ \E x \in DOMAIN execs : UpdateToken(x)
    \/ \E x \in DOMAIN execs : SetUploadDoc(x)

InitStorage ==
    DriverIdle /\ CreateDocIdle /\ FanoutIdle /\ FfmpegIdle /\ StorageIdle
    /\ NamesIdle
    /\ UploadIdle
    /\ RequestIdle
    /\ PrngIdle

\* Uploads with their tokens, and the executions of onUploadFileFinalize.
SpecStorage == InitStorage /\ [][StorageNext]_vars

----------------------------------------------------------------------------
(* Object names: how they are built and what onUploadFileFinalize reads
   from them.  A string is the sequence of its characters. *)

\* the characters of upload ids
IdChars == {"a", "-", ".", "t", "x"}

\* the upload ids: the non-empty strings of at most MaxIdLen characters
UploadIds == SeqsUpTo(IdChars, MaxIdLen) \ {<<>>}

\* 'uploads/', 'burst-uploads/', '.txt'
UploadsPrefix == <<"u", "p", "l", "o", "a", "d", "s", "/">>
BurstPrefix == <<"b", "u", "r", "s", "t", "-">> \o UploadsPrefix
TxtSuffix == <<".", "t", "x", "t">>

\* the largest number of a non-empty set of numbers
Largest(S) == CHOOSE n \in S : \A m \in S : m <= n
Smallest(S) == CHOOSE n \in S : \A m \in S : n <= m

\* s.includes(p)
Includes(s, p) ==
    \E ix \in 1..(Len(s) - Len(p) + 1) : SubSeq(s, ix, ix + Len(p) - 1) = p

\* StartsWith with the prefix looked for anywhere in the string.
StartsWithAnywhere(s, p) == Includes(s, p)

\* s.startsWith(p)
StartsWith(s, p) == Len(s) >= Len(p) /\ SubSeq(s, 1, Len(p)) = p

\* s.split(c).pop(): what follows the last c of s, s itself without any c
SplitPop(s, c) ==
    LET at == {ix \in 1..Len(s) : s[ix] = c}
    IN  IF at = {} THEN s ELSE SubSeq(s, Largest(at) + 1, Len(s))

\* s.split(c)[0]: what precedes the first c of s, s itself without any c
SplitFirst(s, c) ==
    LET at == {ix \in 1..Len(s) : s[ix] = c}
    IN  IF at = {} THEN s ELSE SubSeq(s, 1, Smallest(at) - 1)

\* s.replace(/\.txt$/, '')
StripTxt(s) ==
    IF Len(s) >= Len(TxtSuffix)
       /\ SubSeq(s, Len(s) - Len(TxtSuffix) + 1, Len(s)) = TxtSuffix
    THEN SubSeq(s, 1, Len(s) - Len(TxtSuffix))
    ELSE s

\* `uploads/${uploadId}-${fileIndex}-${rand}.txt`
FilePath(id, counter, rand) ==
    UploadsPrefix \o id \o <<"-">> \o counter \o <<"-">> \o rand \o TxtSuffix

\* `uploads/${uploadId}-${clipIndex}-extra${j}-${r}.txt`
ExtraFilePath(id, counter, j, rand) ==
    UploadsPrefix \o id \o <<"-">> \o counter \o <<"-", "e", "x", "t", "r", "a">>
        \o j \o <<"-">> \o rand \o TxtSuffix

\* `burst-uploads/${uploadId}/task-${taskIndex}-${rand}.txt`
BurstFilePath(id, counter, rand) ==
    BurstPrefix \o id \o <<"/", "t", "a", "s", "k", "-">> \o counter \o <<"-">>
        \o rand \o TxtSuffix

\* the code that builds names for an upload id under uploads/
Producers == {"uploadFile", "runFfmpegAndUpload", "processClip", "processClipExtra"}

\* the name a producer builds for an upload id
BuiltName(by, id, counter, rand) ==
    CASE by = "processClipExtra" -> ExtraFilePath(id, counter, <<"0">>, rand)
      [] by = "runFFmpegProcessing" -> BurstFilePath(id, counter, rand)
      [] OTHER -> FilePath(id, counter, rand)

\* names of objects that nothing of this repository writes
OtherNames ==
    {<<>>, <<"u", "p", "l", "o", "a", "d", "s">>, UploadsPrefix,
     <<"x", "/">> \o UploadsPrefix \o <<"a">>}

\* fileIndex, clipIndex or taskIndex as text, and the random part of a name
Counters == {<<"0">>, <<"1", "1">>}
Rands == {<<"k", "7">>}

\* the upload id the handler of a module takes from a name whose last
\* segment is base
ExtractedId(module, base) ==
    IF module = "repro"
    THEN SplitFirst(base, "-")
    ELSE StripTxt(SplitFirst(base, "-"))

NamesInit ==
    /\ uploadId \in UploadIds
    /\ finalizer \in {"storage-triggers", "repro"}
    /\ objectName = <<>>
    /\ producer = "none"
    /\ hasToken = FALSE
    /\ hpc = "idle"
    /\ firestoreReads = 0
    /\ tokenUpdates = 0
    /\ docsWritten = {}

\* a file is stored under the name one of the producers builds; uploadFile and
\* runFfmpegAndUpload (and the burst uploads) put an uploadToken in its
\* metadata, processClip does not
Produce(by, counter, rand) ==
    /\ producer = "none"
    /\ producer' = by
    /\ objectName' = BuiltName(by, uploadId, counter, rand)
    /\ hasToken' = (by \in {"uploadFile", "runFfmpegAndUpload", "runFFmpegProcessing"})
    /\ UNCHANGED <<notNames, uploadId, finalizer, hpc, firestoreReads,
                   tokenUpdates, docsWritten>>

\* an object of another name is stored, by someone else
ProduceOther(name, token) ==
    /\ producer = "none"
    /\ producer' = "other"
    /\ objectName' = name
    /\ hasToken' = token
    /\ UNCHANGED <<notNames, uploadId, finalizer, hpc, firestoreReads,
                   tokenUpdates, docsWritten>>

\* onUploadFileFinalize is called: if (!name) return;
\* if (!name.startsWith('uploads/')) return; then the token of the metadata,
\* which repro.ts does not look at
NameChecked ==
    /\ producer # "none"
    /\ hpc = "idle"
    /\ hpc' = IF objectName = <<>> \/ ~StartsWith(objectName, UploadsPrefix)
              THEN "ignored"
              ELSE IF finalizer = "storage-triggers" /\ hasToken
                   THEN "token" ELSE "extract"
    /\ UNCHANGED <<notNames, uploadId, objectName, producer, hasToken, finalizer,
                   firestoreReads, tokenUpdates, docsWritten>>

\* storage-triggers.ts: the token document is read; the handler returns when
\* one of its checks fails and else marks the token consumed
TokenVerified(passes) ==
    /\ hpc = "token"
    /\ firestoreReads' = firestoreReads + 1
    /\ tokenUpdates' = IF passes THEN tokenUpdates + 1 ELSE tokenUpdates
    /\ hpc' = IF passes THEN "extract" ELSE "returned"
    /\ UNCHANGED <<notNames, uploadId, objectName, producer, hasToken, finalizer,
                   docsWritten>>

\* the handler takes the upload id from the name and merges into
\* uploads/{uploadId}; storage-triggers.ts returns on an empty last segment,
\* and doc('uploads/') with an empty id throws
DocumentSet ==
    /\ hpc = "extract"
    /\ LET base == SplitPop(objectName, "/")
           id == ExtractedId(finalizer, base)
       IN  IF finalizer = "storage-triggers" /\ base = <<>>
           THEN hpc' = "returned" /\ UNCHANGED docsWritten
           ELSE IF id = <<>>
                THEN hpc' = "threw" /\ UNCHANGED docsWritten
                ELSE hpc' = "done" /\ docsWritten' = docsWritten \cup {id}
    /\ UNCHANGED <<notNames, uploadId, objectName, producer, hasToken, finalizer,
                   firestoreReads, tokenUpdates>>

NamesNext ==
    \/ \E by \in Producers \cup {"runFFmpegProcessing"}, counter \in Counters,
          rand \in Rands : Produce(by, counter, rand)
    \/ \E name \in OtherNames, token \in BOOLEAN : ProduceOther(name, token)
    \/ NameChecked
    \/ \E passes \in BOOLEAN : TokenVerified(passes)
    \/ DocumentSet

InitNames ==
    DriverIdle /\ CreateDocIdle /\ FanoutIdle /\ FfmpegIdle /\ StorageIdle
    /\ NamesInit
    /\ UploadIdle
    /\ RequestIdle
    /\ PrngIdle

\* One object name, from the code that builds it to the handler's write.
SpecNames == InitNames /\ [][NamesNext]_vars

----------------------------------------------------------------------------
(* uploadFile and the route POST /upload-file *)

\* a number as a JavaScript value
GenNumber(n) == [t |-> "number", v |-> n]
GenNull == [t |-> "null"]

\* !x
Not(x) ==
    \/ x.t \in {"undefined", "null"}
    \/ x.t = "boolean" /\ ~x.v
    \/ x.t = "string" /\ x.v = ""
    \/ x.t = "number" /\ x.v = 0

\* MissingFields with fileIndex tested like the other two fields: !fileIndex.
MissingFieldsFalsy(req) ==
    Not(req.uploadId) \/ Not(req.fileIndex) \/ Not(req.baseContent)

\* !uploadId || fileIndex === undefined || !baseContent
MissingFields(req) ==
    Not(req.uploadId) \/ req.fileIndex.t = "undefined" \/ Not(req.baseContent)

\* the requests: each field absent, empty or zero, or present
Requests ==
    [uploadId : {GenUndefined, GenString(""), GenString("u1")},
     fileIndex : {GenUndefined, GenNull, GenNumber(0), GenNumber(1)},
     baseContent : {GenUndefined, GenString(""), GenString("text")}]

UploadInit ==
    /\ via \in {"uploadFile", "POST /upload-file"}
    /\ request \in Requests
    /\ upc = "called"
    /\ tempFile = "none"
    /\ response = "none"

\* the check of the fields: uploadFile throws, the route answers 400
Validate ==
    /\ upc = "called"
    /\ IF MissingFields(request)
       THEN /\ upc' = "rejected"
            /\ response' = IF via = "uploadFile"
                           THEN "Error: Missing required fields"
                           ELSE "400"
       ELSE /\ upc' = "writeFile"
            /\ UNCHANGED response
    /\ UNCHANGED <<notUpload, storageVars, via, request, tempFile>>

\* await fs.writeFile(tempFilePath, content) returns
TempFileWritten ==
    /\ upc = "writeFile"
    /\ tempFile' = "written"
    /\ upc' = "tokenSet"
    /\ UNCHANGED <<notUpload, storageVars, via, request, response>>

\* await tokenRef.set(...) is called
TokenSetCalled ==
    /\ upc = "tokenSet"
    /\ attempts = <<>>
    /\ uploadFile
    /\ upc' = "upload"
    /\ UNCHANGED <<notUpload, via, request, tempFile, response, ffmpegRan, timeout,
                   ffmpegProc, resolved, tokens, bucket, objectEvents, duplicates,
                   foreign, execs, verifiedUploads>>

\* await bucket.upload(...) returns; await fs.unlink(tempFilePath); the
\* result is returned or sent
Unlinked ==
    /\ upc = "upload"
    /\ attempts[1].file = "stored"
    /\ tempFile' = "removed"
    /\ upc' = "done"
    /\ response' = "success"
    /\ UNCHANGED <<notUpload, storageVars, via, request>>

\* await tokenRef.set(...) or await bucket.upload(...) throws, and so does
\* the call; the temp file stays. The route has no catch: its rejected
\* promise leaves the request unanswered, or answered 500 by the framework
UploadThrows ==
    /\ upc = "upload"
    /\ attempts[1].file = "failed"
    /\ upc' = "threw"
    /\ response' \in IF via = "uploadFile" THEN {"Error"} ELSE {"none", "500"}
    /\ UNCHANGED <<notUpload, storageVars, via, request, tempFile>>

UploadFileNext ==
    \/ Validate
    \/ TempFileWritten
    \/ TokenSetCalled
    \/ UploadNext
    \/ Unlinked
    \/ UploadThrows
    \/ \E o \in objectEvents : Deliver(o)
    \/ \E o \in bucket : Redeliver(o)
    \/ \E x \in DOMAIN execs : UpdateToken(x)
    \/ \E x \in DOMAIN execs : SetUploadDoc(x)

InitUploadFile ==
    DriverIdle /\ CreateDocIdle /\ FanoutIdle /\ FfmpegIdle /\ StorageIdle
    /\ NamesIdle /\ UploadInit
    /\ RequestIdle
    /\ PrngIdle

\* One call of uploadFile or of the route, and the finalize events of its file.
SpecUploadFile == InitUploadFile /\ [][UploadFileNext]_vars

----------------------------------------------------------------------------
(* makeApiRequestWithFFmpeg and its target operations *)

PreviewUrl == "/triggerClipPreviewVideo"
GenerateUrl == "/generateAllClipPreviewsAndStitch"

\* Target with both routes leading to triggerClipPreviewVideo.
TargetAlwaysPreview(url) == "triggerClipPreviewVideo"

\* the operation a url stands for, in the routes of the in-memory app and in
\* the fallback alike
Target(url) ==
    IF url = PreviewUrl
    THEN "triggerClipPreviewVideo"
    ELSE "triggerGenerateClipPreview"

\* A call of makeApiRequestWithFFmpeg is named by the way that led to it:
\* <<>> is the call made by onUploadUpdate, and a call made by an execution
\* of triggerClipPreviewVideo has the name of that execution.  An execution
\* of a target operation is named by its call followed by who started it:
\* the route of the in-memory app ("request") or the catch block
\* ("fallback").
ByRequest(c) == Append(c, "request")
ByFallback(c) == Append(c, "fallback")
CallOf(o) == SubSeq(o, 1, Len(o) - 1)

Ended(op) == op.state \in {"returned", "thrown"}

\* the state after onUploadUpdate has pushed its clip promises: one call of
\* makeApiRequestWithFFmpeg per clip, its request in flight
RequestInit ==
    /\ calls = [b \in Clips |-> (<<>> :> [url |-> PreviewUrl, state |-> "request"])]
    /\ ops = [b \in Clips |-> <<>>]
    /\ objects = [b \in Clips |-> [ffmpeg |-> 0, preview |-> 0]]
    /\ failures = 0

\* the target operation of call c of clip b starts as execution o, and c
\* becomes state.  triggerClipPreviewVideo calls makeApiRequestWithFFmpeg at
\* once and awaits it; triggerGenerateClipPreview starts with
\* runActualFFmpegWork
StartOp(b, c, o, state) ==
    LET name == Target(calls[b][c].url)
        started == [calls[b] EXCEPT ![c].state = state]
    IN  IF name = "triggerClipPreviewVideo"
        THEN /\ ops' = [ops EXCEPT ![b] = @ @@ (o :> [name |-> name, state |-> "waiting"])]
             /\ calls' = [calls EXCEPT ![b] =
                    started @@ (o :> [url |-> GenerateUrl, state |-> "request"])]
        ELSE /\ ops' = [ops EXCEPT ![b] = @ @@ (o :> [name |-> name, state |-> "ffmpeg"])]
             /\ calls' = [calls EXCEPT ![b] = started]

\* the request reaches its route of the in-memory app, which calls the
\* operation
RouteCalled(b, c) ==
    /\ calls[b][c].state = "request"
    /\ ByRequest(c) \notin DOMAIN ops[b]
    /\ StartOp(b, c, ByRequest(c), "request")
    /\ UNCHANGED <<notRequest, objects, failures>>

\* the try block throws before the route is called (an import or the
\* adapter fails): the catch block calls the operation directly
RequestBreaks(b, c) ==
    /\ calls[b][c].state = "request"
    /\ ByRequest(c) \notin DOMAIN ops[b]
    /\ failures < MaxFailures
    /\ failures' = failures + 1
    /\ StartOp(b, c, ByFallback(c), "fallback")
    /\ UNCHANGED <<notRequest, objects>>

\* the routed operation has returned: res.json(result), and the call returns
\* response.data
RequestAnswered(b, c) ==
    /\ calls[b][c].state = "request"
    /\ ByRequest(c) \in DOMAIN ops[b]
    /\ ops[b][ByRequest(c)].state = "returned"
    /\ calls' = [calls EXCEPT ![b][c].state = "returned"]
    /\ UNCHANGED <<notRequest, ops, objects, failures>>

\* the routed operation has thrown: the request fails, and the catch block
\* calls the operation directly
RequestRejected(b, c) ==
    /\ calls[b][c].state = "request"
    /\ ByRequest(c) \in DOMAIN ops[b]
    /\ ops[b][ByRequest(c)].state = "thrown"
    /\ StartOp(b, c, ByFallback(c), "fallback")
    /\ UNCHANGED <<notRequest, objects, failures>>

\* timeout: 30000 passes while the routed operation is running: the request
\* fails, the catch block calls the operation directly, and the routed
\* operation goes on
RequestTimesOut(b, c) ==
    /\ calls[b][c].state = "request"
    /\ ByRequest(c) \in DOMAIN ops[b]
    /\ ~Ended(ops[b][ByRequest(c)])
    /\ failures < MaxFailures
    /\ failures' = failures + 1
    /\ StartOp(b, c, ByFallback(c), "fallback")
    /\ UNCHANGED <<notRequest, objects>>

\* the direct call of the catch block returns or throws, and so does the
\* call of makeApiRequestWithFFmpeg
FallbackEnds(b, c) ==
    /\ calls[b][c].state = "fallback"
    /\ Ended(ops[b][ByFallback(c)])
    /\ calls' = [calls EXCEPT ![b][c].state = ops[b][ByFallback(c)].state]
    /\ UNCHANGED <<notRequest, ops, objects, failures>>

\* triggerClipPreviewVideo: the call it awaits returns or throws, and so
\* does it
PreviewEnds(b, o) ==
    /\ ops[b][o].state = "waiting"
    /\ calls[b][o].state \in {"returned", "thrown"}
    /\ ops' = [ops EXCEPT ![b][o].state = calls[b][o].state]
    /\ UNCHANGED <<notRequest, calls, objects, failures>>

\* runActualFFmpegWork: the three calls of runFfmpegAndUpload have resolved,
\* each with its one file stored
FfmpegWorkDone(b, o) ==
    /\ ops[b][o].state = "ffmpeg"
    /\ ops' = [ops EXCEPT ![b][o].state = "uploads"]
    /\ objects' = [objects EXCEPT ![b].ffmpeg = @ + FfmpegTasks]
    /\ UNCHANGED <<notRequest, calls, failures>>

\* runActualFFmpegWork with a failure or a timeout in one call of
\* runFfmpegAndUpload: its save fails (no file), or its timer fires and the
\* exit of the killed subprocess stores a second file
FfmpegWorkDisturbed(b, o, n) ==
    /\ ops[b][o].state = "ffmpeg"
    /\ failures < MaxFailures
    /\ failures' = failures + 1
    /\ ops' = [ops EXCEPT ![b][o].state = "uploads"]
    /\ objects' = [objects EXCEPT ![b].ffmpeg = @ + n]
    /\ UNCHANGED <<notRequest, calls>>

\* triggerGenerateClipPreview: both calls of uploadFile return
UploadsDone(b, o) ==
    /\ ops[b][o].state = "uploads"
    /\ ops' = [ops EXCEPT ![b][o].state = "returned"]
    /\ objects' = [objects EXCEPT ![b].preview = @ + PreviewFiles]
    /\ UNCHANGED <<notRequest, calls, failures>>

\* triggerGenerateClipPreview: a call of uploadFile throws, and so does
\* Promise.all(uploads); the other call may still store its file
UploadsThrow(b, o, n) ==
    /\ ops[b][o].state = "uploads"
    /\ failures < MaxFailures
    /\ failures' = failures + 1
    /\ ops' = [ops EXCEPT ![b][o].state = "thrown"]
    /\ objects' = [objects EXCEPT ![b].preview = @ + n]
    /\ UNCHANGED <<notRequest, calls>>

RequestNext ==
    \/ \E b \in Clips : \E c \in DOMAIN calls[b] : RouteCalled(b, c)
    \/ \E b \in Clips : \E c \in DOMAIN calls[b] : RequestBreaks(b, c)
    \/ \E b \in Clips : \E c \in DOMAIN calls[b] : RequestAnswered(b, c)
    \/ \E b \in Clips : \E c \in DOMAIN calls[b] : RequestRejected(b, c)
    \/ \E b \in Clips : \E c \in DOMAIN calls[b] : RequestTimesOut(b, c)
    \/ \E b \in Clips : \E c \in DOMAIN calls[b] : FallbackEnds(b, c)
    \/ \E b \in Clips : \E o \in DOMAIN ops[b] : PreviewEnds(b, o)
    \/ \E b \in Clips : \E o \in DOMAIN ops[b] : FfmpegWorkDone(b, o)
    \/ \E b \in Clips : \E o \in DOMAIN ops[b] :
          \E n \in {FfmpegTasks - 1, FfmpegTasks + 1} : FfmpegWorkDisturbed(b, o, n)
    \/ \E b \in Clips : \E o \in DOMAIN ops[b] : UploadsDone(b, o)
    \/ \E b \in Clips : \E o \in DOMAIN ops[b] :
          \E n \in 0..(PreviewFiles - 1) : UploadsThrow(b, o, n)

InitRequest ==
    DriverIdle /\ CreateDocIdle /\ FanoutIdle /\ FfmpegIdle /\ StorageIdle
    /\ NamesIdle /\ UploadIdle /\ RequestInit
    /\ PrngIdle

\* The requests of the fan-out of one flip of generate.
SpecRequest == InitRequest /\ [][RequestNext]_vars

----------------------------------------------------------------------------
(* The generator taken alone: prng_next and prng_float over the seeds *)

\* 1103515245 * s + 12345 before the remainder is taken, in the same two parts
Product(s) ==
    AddWide(MulWide(LcgA, s), LcgC)

\* Seeds at the ends of 0 .. 2147483647 and in its middle, the seeds whose
\* next state is 2147483647, 0 and 1073741824, and the two whose next states
\* lie on either side of 0.005 * 2147483648.
PrngSeeds ==
    {0, 1, 42, 12345, 1073741823, 1073741824, 2147483646, 2147483647,
     230538014, 2088216195, 1014474371, 1438362485, 1148557018}

\* _SEED_STATE=$SEED
PrngInit ==
    /\ genState \in {Itoa(s) : s \in PrngSeeds}
    /\ genProduct = [hi |-> 0, lo |-> 0]
    /\ duration = <<>>
    /\ draws = 0

\* prng_next called in the shell itself: _SEED_STATE takes the next state
PrngNextCalled ==
    /\ draws < MaxDraws
    /\ draws' = draws + 1
    /\ genProduct' = Product(ArithValue(genState))
    /\ genState' = prng_next(genState).state
    /\ UNCHANGED <<notPrng, duration>>

\* $(prng_float): the next state is computed in a subshell and printed as
\* seconds; _SEED_STATE of the shell keeps its value
PrngFloatCalled ==
    /\ genProduct' = Product(ArithValue(genState))
    /\ duration' = CommandSubst(prng_float(genState))
    /\ genState' = prng_float(genState).state
    /\ UNCHANGED <<notPrng, draws>>

PrngNext == PrngNextCalled \/ PrngFloatCalled

InitPrng ==
    DriverIdle /\ CreateDocIdle /\ FanoutIdle /\ FfmpegIdle /\ StorageIdle
    /\ NamesIdle /\ UploadIdle /\ RequestIdle /\ PrngInit

\* The generator started from each seed of PrngSeeds.
SpecPrng == InitPrng /\ [][PrngNext]_vars

----------------------------------------------------------------------------
(* Properties *)

LoopPcs == {"invoke", "node", "settle", "prng", "sleep", "complete"}

IsPrefix(a, b) ==
    /\ Len(a) <= Len(b)
    /\ SubSeq(b, 1, Len(a)) = a

\* the steps of iterations 1 .. n when nothing fails, without their arguments
RECURSIVE Rounds(_)
Rounds(n) ==
    IF n = 0 THEN <<>>
    ELSE Rounds(n - 1) \o <<[op |-> "invoke", it |-> n], [op |-> "exit", it |-> n],
                            [op |-> "settle", it |-> n], [op |-> "sleep", it |-> n]>>

AllRounds == Rounds(NumIterations)

Steps == [k \in 1..Len(log) |-> [op |-> log[k].op, it |-> log[k].it]]

Failed(e) == e.op = "exit" /\ e.arg # <<"0">>

NoInvocationFailed == \A k \in 1..Len(log) : ~Failed(log[k])

\* the k-th state of the generator started from S
RECURSIVE LcgState(_, _)
LcgState(S, k) == IF k = 0 THEN S ELSE Lcg(LcgState(S, k - 1))

\* C1: with a numeric seed S, the sleep of iteration k lasts
\* round(state_k / 2147483648, 2) seconds, where state_0 = S and
\* state_k = (1103515245 * state_(k-1) + 12345) mod 2147483648: each iteration
\* uses the next state of the generator, not the first one again.
C1_SleepUsesKthState ==
    ArithOk(SEED) =>
        \A k \in 1..Len(sleeps) :
            sleeps[k] = Format2(Hundredths(LcgState(ArithValue(SEED), k)))

\* C2: a second run of the same command line hands the same durations, in the
\* same order, to the pseudo-random sleep as the completed run before it,
\* whatever the build did and whatever files were on disk.
C2_RunsRepeatSleeps ==
    run > 1 =>
        /\ IsPrefix(sleeps, prevSleeps)
        /\ (pc = "done" /\ exitCode = 0) => sleeps = prevSleeps

C2_Witness ==
    /\ run = 2
    /\ pc = "done"
    /\ exitCode = 0
    /\ Len(sleeps) = NumIterations
    /\ sleeps = prevSleeps
    /\ builds = 1

C4_FailureStopsDriver ==
    \A k \in 1..Len(log) :
        Failed(log[k]) =>
            /\ k = Len(log)
            /\ pc = "done"
            /\ exitCode # 0
            /\ exitCode # NoExit
            /\ running = 0
            /\ ~completed
            /\ Cardinality({j \in 1..Len(log) :
                               log[j].op = "invoke" /\ log[j].it = log[k].it}) = 1

C4_Witness ==
    /\ Len(log) = 6
    /\ Failed(log[6])
    /\ log[6].it = 2
    /\ pc = "done"

\* the exit status recorded for a failed invocation, if there is one
FailedStatuses == {log[k].arg : k \in {j \in 1..Len(log) : Failed(log[j])}}

\* C5 as claimed: the exit code is 0 exactly when all 20 iterations completed,
\* and it is 1 when the artifact is missing after a build attempt and when an
\* invocation exited with a non-zero status, whatever that status was.
C5_ExitCodeZeroOrOne ==
    pc = "done" =>
        /\ exitCode = 0 <=> (completed /\ Len(sleeps) = NumIterations)
        /\ (builds > 0 /\ ~OUT_FILE.exists) => exitCode = 1
        /\ FailedStatuses # {} => exitCode = 1

\* C5 amended: the exit code is 0 exactly when all 20 iterations completed; it
\* is 1 when the artifact is missing after a build that exited with status 0;
\* and when the build or an invocation exits with a non-zero status, the exit
\* code is that status.
C5_ExitCodeIsFailedStatus ==
    pc = "done" =>
        /\ exitCode = 0 <=> (completed /\ Len(sleeps) = NumIterations)
        /\ (builds > 0 /\ buildStatus = 0 /\ ~OUT_FILE.exists) => exitCode = 1
        /\ (builds > 0 /\ buildStatus # 0) => exitCode = buildStatus
        /\ FailedStatuses # {} => FailedStatuses = {Itoa(exitCode)}

C5_Witness ==
    /\ pc = "done"
    /\ exitCode = 3
    /\ FailedStatuses = {<<"3">>}
    /\ log[Len(log)].it = NumIterations

----------------------------------------------------------------------------
(* Command lines as the documentation describes them *)

IsInteger(w) ==
    /\ Len(w) > 0
    /\ \A k \in 1..Len(w) : IsDigit(w[k])

IsSeedEqForm(w) ==
    /\ HasPrefix(w, W_seedEq)
    /\ IsInteger(Drop(w, Len(W_seedEq)))

\* a list of "--seed n", "--seed=n" and "--rebuild", n an integer
RECURSIVE ValidArgs(_)
ValidArgs(a) ==
    IF a = <<>> THEN TRUE
    ELSE IF a[1] = W_rebuild \/ IsSeedEqForm(a[1]) THEN ValidArgs(Tail(a))
    ELSE IF a[1] = W_seed /\ Len(a) >= 2 /\ IsInteger(a[2]) THEN ValidArgs(Drop(a, 2))
    ELSE FALSE

\* the seeds a valid list gives, in order
RECURSIVE SeedsGiven(_)
SeedsGiven(a) ==
    IF a = <<>> THEN <<>>
    ELSE IF a[1] = W_rebuild THEN SeedsGiven(Tail(a))
    ELSE IF a[1] = W_seed THEN <<a[2]>> \o SeedsGiven(Drop(a, 2))
    ELSE <<Drop(a[1], Len(W_seedEq))>> \o SeedsGiven(Tail(a))

\* does a valid list ask for a rebuild
RECURSIVE RebuildGiven(_)
RebuildGiven(a) ==
    IF a = <<>> THEN FALSE
    ELSE IF a[1] = W_rebuild THEN TRUE
    ELSE IF a[1] = W_seed THEN RebuildGiven(Drop(a, 2))
    ELSE RebuildGiven(Tail(a))

ExpectedSeed(a) ==
    LET given == SeedsGiven(a)
    IN  IF given = <<>> THEN W_12345 ELSE given[Len(given)]

Unrecognized(w) ==
    /\ w # W_seed
    /\ w # W_rebuild
    /\ ~HasPrefix(w, W_seedEq)

RemoveAt(a, p) == SubSeq(a, 1, p - 1) \o SubSeq(a, p + 1, Len(a))

\* an unrecognized word put somewhere into a valid list
HasInsertedUnknown(a) ==
    \E p \in 1..Len(a) :
        /\ Unrecognized(a[p])
        /\ ValidArgs(RemoveAt(a, p))

----------------------------------------------------------------------------

\* C6: the build runs if and only if a rebuild is forced, or the artifact does
\* not exist, or the source is strictly newer than the artifact, as the files
\* are when the check is made; forced means that --rebuild was given.
C6_RebuildDecision ==
    /\ ~checked.done => builds = 0
    /\ checked.done =>
          /\ checked.build <=> \/ checked.forced
                                \/ ~checked.out.exists
                                \/ checked.src.mtime > checked.out.mtime
          /\ pc = "build" => (checked.build /\ builds = 0)
          /\ pc # "build" => builds = (IF checked.build THEN 1 ELSE 0)
          /\ ValidArgs(argv) => (checked.forced <=> RebuildGiven(argv))

C6_Witness ==
    /\ checked.done
    /\ RebuildGiven(argv)
    /\ ValidArgs(argv)
    /\ checked.out.exists
    /\ checked.src.mtime <= checked.out.mtime
    /\ builds = 1
    /\ pc = "verify"

\* C7: when the first iteration starts, the artifact exists and the source is
\* not strictly newer than it; and when a build was run and the artifact is
\* missing, the driver has exited with a non-zero status without a single
\* invocation.
C7_FreshArtifactBeforeIterating ==
    /\ (pc = "invoke" /\ i = 1 /\ log = <<>>) =>
           /\ OUT_FILE.exists
           /\ ~NewerThan(SRC_FILE, OUT_FILE)
    /\ (builds > 0 /\ buildStatus # NoExit /\ ~OUT_FILE.exists /\ pc # "verify") =>
           /\ pc = "done"
           /\ exitCode # 0
           /\ log = <<>>

\* C8: at most one invocation is in progress, and only while the driver waits
\* for it; the invocation of iteration j > 1 comes directly after the exit
\* with status 0, the settle wait and the sleep of iteration j - 1.
C8_StrictlySequential ==
    /\ running \in {0, 1}
    /\ running = 1 <=> pc = "node"
    /\ \A k \in 1..Len(log) :
          log[k].op = "invoke" =>
              \/ k = 1 /\ log[k].it = 1
              \/ /\ k > 4
                 /\ log[k - 4].op = "invoke" /\ log[k - 4].it = log[k].it - 1
                 /\ log[k - 3].op = "exit" /\ log[k - 3].it = log[k].it - 1
                 /\ ~Failed(log[k - 3])
                 /\ log[k - 2].op = "settle" /\ log[k - 2].it = log[k].it - 1
                 /\ log[k - 1].op = "sleep" /\ log[k - 1].it = log[k].it - 1

C8_Witness ==
    /\ pc = "node"
    /\ running = 1
    /\ i = 2
    /\ Len(log) = 5

\* C9: with an unrecognized word anywhere in an otherwise valid command line,
\* the driver never gets past argument parsing: it makes no build-freshness
\* check, no build and no invocation, and when it exits its status is 1.
C9_UnknownArgStopsBeforeBuild ==
    HasInsertedUnknown(argv) =>
        /\ pc \in {"parse", "done"}
        /\ pc = "parse" => Len(args) > 0
        /\ pc = "done" => exitCode = 1
        /\ ~checked.done
        /\ builds = 0
        /\ log = <<>>

C9_Witness ==
    /\ argv = <<W_seed, W_bogus, W_42>>
    /\ pc = "done"
    /\ exitCode = 1
    /\ SEED = W_bogus

\* C10: for a valid command line the seed after parsing is the last seed
\* given, in either form, 12345 if none was given, and --rebuild does not
\* matter; the generator starts from that seed.
C10_SeedForms ==
    (ValidArgs(argv) /\ pc # "parse") =>
        /\ SEED = ExpectedSeed(argv)
        /\ pc = "done" => checked.done
        /\ (pc = "invoke" /\ i = 1 /\ log = <<>>) =>
               /\ SEED_STATE = ExpectedSeed(argv)
               /\ TEST_SEED = ExpectedSeed(argv)

C10_Witness ==
    /\ argv = <<W_seedEq7, W_rebuild, W_seedEq42>>
    /\ pc = "invoke"
    /\ i = 1
    /\ SEED_STATE = W_42

\* the value an invocation must see for a variable with a local default:
\* the caller's value if the caller gave a non-empty one, else the default
Expected(v, default) == IF v.set /\ v.val # "" THEN v.val ELSE default

C12_CreateDocRun ==
    /\ Len(col) <= NumDocs
    /\ \A k \in 1..Len(col) : col[k].created.generate = FALSE
    /\ \A t \in Callbacks :
           /\ issuedAt[t] # NoTime =>
                  /\ docRef[t] \in 1..Len(col)
                  /\ col[docRef[t]].testRun = t
                  /\ issuedAt[t] >= col[docRef[t]].created.at + t * DelayStepMs
           /\ (docRef[t] # 0 /\ col[docRef[t]].generate) => promises[t] = "fulfilled"
    /\ scriptExit = 0 =>
           /\ Len(col) = NumDocs
           /\ \A k \in 1..Len(col) : col[k].generate
           /\ \A t \in Callbacks : \E k \in 1..Len(col) : col[k].testRun = t
    /\ (\E t \in Callbacks : promises[t] = "rejected") => scriptExit > 0

\* the three callbacks do not wait for each other: the run ends with status
\* 0 although the last callback's record was added and flipped first
C12_Witness ==
    /\ scriptExit = 0
    /\ col[1].testRun = 2
    /\ issuedAt[2] < col[docRef[0]].created.at
    /\ issuedAt[2] >= 2 * DelayStepMs

AllClips == {<<f, b>> : f \in 1..Len(fans), b \in Clips}

C17_FanoutOnlyOnFlip ==
    /\ \A h \in handled :
          h.started <=> (~StrictTrue(h.before) /\ StrictTrue(h.after))
    /\ Len(fans) = Cardinality({h \in handled : h.started})
    /\ \A f \in 1..Len(fans) : \E h \in handled : h.started /\ h.id = fans[f].event
    /\ fans = <<>> => (filesUploaded = 0 /\ writes = clientWrites)

\* one event with generate going from the string "true" to true was handled
\* and started the fan-out; one with true before and after was handled and
\* started nothing
C17_Witness ==
    /\ \E h \in handled : h.started /\ h.before = GenString("true")
    /\ \E h \in handled : ~h.started /\ StrictTrue(h.before) /\ StrictTrue(h.after)
    /\ Len(fans) = 1

\* no event to deliver, no file to finalize, no clip at work
Quiescent ==
    /\ updateEvents = {}
    /\ finalizeEvents = 0
    /\ \A x \in AllClips : ~Pending(fans[x[1]].clips[x[2]])

\* C18: the writes of onUploadFileFinalize fire onUploadUpdate again, and it
\* never starts a fan-out for them; the fan-outs of a document are those of
\* the writes that flipped generate to true, one each; every write has one
\* event and the functions write once per finalized file at most, so the
\* work is finite, and the system comes to rest with no pending work.
C18_NoFeedbackLoop ==
    /\ [](/\ \A h \in handled : h.cause = "finalize" => ~h.started
          /\ Len(fans) <= flips
          /\ \A f, g \in 1..Len(fans) : fans[f].event = fans[g].event => f = g
          /\ (\A e \in updateEvents : e.cause # "client") => Len(fans) = flips
          /\ Cardinality(updateEvents) + Cardinality(handled) = writes
          /\ writes + finalizeEvents <= clientWrites + filesUploaded)
    /\ <>[]Quiescent

\* the fan-out of the flip has run, its files were finalized, and the events
\* of those writes were handled without a second fan-out
C18_Witness ==
    /\ Quiescent
    /\ flips = 1
    /\ Len(fans) = 1
    /\ uploadDoc.verified = MaxFiles
    /\ Cardinality({h \in handled : h.cause = "finalize"}) = MaxFiles

\* every upload and every execution of the finalize handler has ended
StorageQuiescent ==
    /\ \A k \in 1..Len(attempts) :
          /\ attempts[k].tokenSet # "pending"
          /\ attempts[k].file \in {"stored", "failed"}
    /\ objectEvents = {}
    /\ \A x \in DOMAIN execs : execs[x].pc \in {"returned", "done"}

\* C15: every file that uploadFile or runFfmpegAndUpload has stored under
\* uploads/ ends up in verifiedUploads of its document, whatever the order of
\* the token write, the upload and the finalize handler: once everything has
\* ended, no stored file is missing from verifiedUploads.
C15_StoredFileVerified ==
    StorageQuiescent =>
        \A k \in 1..Len(attempts) :
            attempts[k].file = "stored" => k \in verifiedUploads

\* C16: a call of runFfmpegAndUpload records one outcome: finalizeUpload is
\* called at most once, so there is at most one token document and one file,
\* and the promise is resolved at most once.
C16_OneOutcome ==
    /\ Len(attempts) <= 1
    /\ Cardinality(DOMAIN tokens) <= 1
    /\ Cardinality(bucket) <= 1

\* the token data an execution has read passes the three checks
ReadPasses(e) ==
    /\ e.tokenData.read
    /\ e.tokenData.exists
    /\ ~e.tokenData.isConsumed
    /\ e.tokenData.fileStoragePath = e.name

\* C19: an execution of onUploadFileFinalize for a file with an uploadToken
\* marks the token consumed and writes the uploads document only if the token
\* document it read exists, is not consumed and has the file's name as
\* fileStoragePath; it writes the uploads document only after it has marked
\* the token consumed; and when a check fails it returns with the token
\* documents and the uploads document as they were.
C19_TokenChecks ==
    /\ [](\A x \in DOMAIN execs :
            execs[x].uploadToken # NoToken =>
                /\ (execs[x].updatedToken \/ execs[x].wroteDoc) => ReadPasses(execs[x])
                /\ execs[x].wroteDoc => execs[x].updatedToken
                /\ execs[x].pc = "returned" =>
                       /\ ~ReadPasses(execs[x])
                       /\ ~execs[x].updatedToken
                       /\ ~execs[x].wroteDoc)
    /\ [][\A x \in DOMAIN execs' :
            execs'[x].pc = "returned" =>
                \/ x \in DOMAIN execs /\ execs[x].pc = "returned"
                \/ /\ x \notin DOMAIN execs
                   /\ tokens' = tokens
                   /\ verifiedUploads' = verifiedUploads]_vars

\* one execution has returned at the comparison of fileStoragePath with the
\* name, another has marked its token consumed and written the document
C19_Witness ==
    \E x, y \in DOMAIN execs :
        /\ execs[x].pc = "returned"
        /\ execs[x].tokenData.exists
        /\ ~execs[x].tokenData.isConsumed
        /\ execs[x].tokenData.fileStoragePath # execs[x].name
        /\ execs[y].pc = "done"
        /\ execs[y].uploadToken # NoToken
        /\ execs[y].wroteDoc

\* C20: an upload token is consumed at most once: of the executions of
\* onUploadFileFinalize for one file and token, at most one updates the
\* token document and writes the uploads document.
C20_ConsumedAtMostOnce ==
    /\ \A t \in DOMAIN tokens : tokens[t].updates <= 1
    /\ \A x, y \in DOMAIN execs :
           /\ x # y
           /\ execs[x].uploadToken # NoToken
           /\ execs[x].uploadToken = execs[y].uploadToken
           /\ execs[x].name = execs[y].name
           => ~(execs[x].updatedToken /\ execs[y].updatedToken)

\* the name of the finalized object is not empty and begins with 'uploads/'
UnderUploads ==
    /\ Len(objectName) >= 8
    /\ SubSeq(objectName, 1, 8) = <<"u", "p", "l", "o", "a", "d", "s", "/">>

\* C21: for an object whose name is empty or does not begin with 'uploads/',
\* onUploadFileFinalize reads nothing from Firestore and writes nothing to it:
\* it returns at the checks of the name, in storage-triggers.ts and in
\* repro.ts.
C21_OtherNamesIgnored ==
    (producer # "none" /\ ~UnderUploads) =>
        /\ hpc \in {"idle", "ignored"}
        /\ firestoreReads = 0
        /\ tokenUpdates = 0
        /\ docsWritten = {}

\* the handler has returned at the name of a burst upload that holds a token
C21_Witness ==
    /\ producer = "runFFmpegProcessing"
    /\ hasToken
    /\ hpc = "ignored"

\* C22: for every upload id and every name that uploadFile,
\* runFfmpegAndUpload or processClip builds for it, the handler that has
\* written a document has written the document of that upload id, and no
\* other.
C22_NameRoundTrip ==
    (producer \in Producers /\ hpc = "done") => docsWritten = {uploadId}

\* C23: in uploadFile and in the route POST /upload-file the token document
\* is written before the upload of the file starts: while the file is being
\* uploaded or is stored its token document exists, with the path of that
\* file as fileStoragePath, and no execution of onUploadFileFinalize for the
\* file has read a missing token document.
C23_TokenBeforeUpload ==
    /\ \A k \in 1..Len(attempts) :
           (attempts[k].kind = "uploadFile" /\ attempts[k].file \in {"pending", "stored"}) =>
               /\ attempts[k].tokenSet = "written"
               /\ k \in DOMAIN tokens
               /\ \A o \in bucket :
                      o.name = k => /\ o.uploadToken = k
                                    /\ tokens[k].fileStoragePath = o.name
    /\ \A x \in DOMAIN execs :
           (/\ execs[x].name \in 1..Len(attempts)
            /\ attempts[execs[x].name].kind = "uploadFile") =>
               /\ execs[x].tokenData.read
               /\ execs[x].tokenData.exists
               /\ execs[x].tokenData.fileStoragePath = execs[x].name

\* the file of a call of the route is stored, the call has removed its temp
\* file, and the finalize handler has written the document for the file
C23_Witness ==
    /\ via = "POST /upload-file"
    /\ upc = "done"
    /\ \E x \in DOMAIN execs : execs[x].name = 1 /\ execs[x].pc = "done"

\* C24: a call without uploadId, without baseContent or with an undefined
\* fileIndex is rejected before any side effect (uploadFile throws 'Missing
\* required fields', the route answers 400): no temp file, no token document,
\* no object; a call with all three fields, fileIndex 0 included, is not
\* rejected.
C24_MissingFieldsRejected ==
    LET absent(x) == x.t \in {"undefined", "null"} \/ (x.t = "string" /\ x.v = "")
        missing == \/ absent(request.uploadId)
                   \/ request.fileIndex.t = "undefined"
                   \/ absent(request.baseContent)
    IN  /\ (missing /\ upc # "none") =>
               /\ upc \in {"called", "rejected"}
               /\ tempFile = "none"
               /\ attempts = <<>>
               /\ tokens = <<>>
               /\ bucket = {}
        /\ upc = "rejected" =>
               /\ missing
               /\ response = IF via = "uploadFile"
                             THEN "Error: Missing required fields" ELSE "400"
        /\ (upc # "none" /\ request.fileIndex = GenNumber(0)
            /\ ~absent(request.uploadId) /\ ~absent(request.baseContent)) =>
               upc # "rejected"

\* a call of the route is rejected for its undefined fileIndex alone
C24_Witness ==
    /\ upc = "rejected"
    /\ request.fileIndex = GenUndefined
    /\ request.uploadId = GenString("u1")
    /\ request.baseContent = GenString("text")
    /\ via = "POST /upload-file"

\* C25: each call of makeApiRequestWithFFmpeg executes its target operation
\* at most once: the operation is never started both by the route of the
\* in-memory app and by the direct call of the catch block.
C25_OperationAtMostOnce ==
    \A b \in Clips : \A c \in DOMAIN calls[b] :
        ~(ByRequest(c) \in DOMAIN ops[b] /\ ByFallback(c) \in DOMAIN ops[b])

\* the objects one clip has stored
Stored(b) == objects[b].ffmpeg + objects[b].preview

\* C26: the recursion stops at the second call: the call of onUploadUpdate
\* asks for triggerClipPreviewVideo, a call made by triggerClipPreviewVideo
\* asks for triggerGenerateClipPreview, and triggerGenerateClipPreview makes
\* no call.  Without a failure or a timeout each clip runs each operation
\* once and stores 3 ffmpeg files and 2 preview files, 15 objects for the 3
\* clips of one flip.
C26_BoundedAndFifteen ==
    /\ \A b \in Clips :
          /\ \A c \in DOMAIN calls[b] :
                /\ Len(c) <= 1
                /\ (c = <<>>) => calls[b][c].url = PreviewUrl
                /\ (c # <<>>) =>
                      /\ calls[b][c].url = GenerateUrl
                      /\ c \in DOMAIN ops[b]
                      /\ ops[b][c].name = "triggerClipPreviewVideo"
          /\ \A o \in DOMAIN ops[b] :
                /\ CallOf(o) \in DOMAIN calls[b]
                /\ ops[b][o].name = "triggerGenerateClipPreview" =>
                      /\ o \notin DOMAIN calls[b]
                      /\ Len(o) = 2
                /\ ops[b][o].name = "triggerClipPreviewVideo" => Len(o) = 1
    /\ failures = 0 =>
          /\ \A b \in Clips :
                /\ objects[b].ffmpeg \in {0, FfmpegTasks}
                /\ objects[b].preview \in {0, PreviewFiles}
                /\ calls[b][<<>>].state = "returned" =>
                      objects[b] = [ffmpeg |-> FfmpegTasks, preview |-> PreviewFiles]
          /\ (\A b \in Clips : calls[b][<<>>].state = "returned") =>
                Stored(0) + Stored(1) + Stored(2) = 15

\* all three calls of onUploadUpdate have returned in a run without a
\* failure, every operation started by the route
C26_Witness ==
    /\ failures = 0
    /\ \A b \in Clips :
          /\ calls[b][<<>>].state = "returned"
          /\ DOMAIN ops[b] = {<<"request">>, <<"request", "request">>}
          /\ Stored(b) = FfmpegTasks + PreviewFiles

\* C27: for a seed in 0 .. 2147483647 every state of the generator is a
\* decimal number in 0 .. 2147483647, the product 1103515245 * state + 12345
\* stays below 2^63 (its part above 2^31 stays below 2^31) and its remainder
\* is the next state (seen while prng_float has not computed a product of its
\* own), and every duration printed is d.dd with a value from 0.00 to 1.00.
C27_GeneratorInRange ==
    /\ ArithOk(genState)
    /\ Len(genState) \in 1..10
    /\ (Len(genState) > 1) => genState[1] # "0"
    /\ ArithValue(genState) \in 0..LcgMask
    /\ genProduct.hi \in 0..LcgMask
    /\ genProduct.lo \in 0..LcgMask
    /\ (draws > 0 /\ duration = <<>>) => genState = Itoa(genProduct.lo)
    /\ duration # <<>> =>
          /\ Len(duration) = 4
          /\ duration[2] = "."
          /\ \A k \in {1, 3, 4} : IsDigit(duration[k])
          /\ ParseBase(<<duration[1], duration[3], duration[4]>>, 10) \in 0..100

\* the generator has reached its largest state, and the duration printed
\* for the state before it is 1.00
C27_Witness ==
    /\ draws > 0
    /\ genState = Itoa(LcgMask)
    /\ genProduct.hi > 0
    /\ duration = <<"1", ".", "0", "0">>

====
